---- MODULE Spec2Model ----
\* State-machine model of the resource explorer: the namespace tree
\* (NamespaceModel), the messages pane (MessagesModel), the detail pane
\* (MessageDetailModel) and the coordinator (ExplorerModel), driven by one
\* serial stream of events while fetches complete in any order.
\*
\* Go strings are sequences of one-character strings, so that prefixes,
\* suffixes and hyphens of node ids are computed, not assumed.
\* Go pointers to TreeNode are indices into `heap`; 0 is nil.
EXTENDS Integers, Sequences, FiniteSets, Bags, TLC

----------------------------------------------------------------------------
\* Bounds of the model.

\* at most this many commands (fetches, selection events) are in flight
MaxInFlight == 2
\* under the three-pane coordinator, at most this many fetches of one topic's
\* subscriptions are in flight
MaxExplorerSubscriptionFetches == 1
\* the provider answers a peek with at most this many messages
MaxMessages == 2

\* the longest sequence of keys tried when looking for a way to repeat a fetch
MaxRetryKeys == 3
\* Enter presses on the namespace list before the first connection answers
MaxConnects == 2

\* the widest and the tallest terminal a resize is tried with
MaxWidth == 120
MaxHeight == 10

\* the tallest terminal the detail pane alone is tried with
MaxDetailHeight == 18

----------------------------------------------------------------------------
\* Strings.

PrefixTopic == <<"t", "o", "p", "i", "c", "-">>
PrefixQueue == <<"q", "u", "e", "u", "e", "-">>
PrefixSub == <<"s", "u", "b", "-">>
SuffixActive == <<"-", "a", "c", "t", "i", "v", "e">>
SuffixDlq == <<"-", "d", "l", "q">>
NameActiveMessages ==
    <<"A", "c", "t", "i", "v", "e", " ", "M", "e", "s", "s", "a", "g", "e", "s">>
NameDlqMessages ==
    <<"D", "L", "Q", " ", "M", "e", "s", "s", "a", "g", "e", "s">>

NodeTypeTopic == "topic"
NodeTypeQueue == "queue"
NodeTypeSubscription == "subscription"
NodeTypeMessages == "messages"

Max(a, b) == IF a >= b THEN a ELSE b
Min(a, b) == IF a <= b THEN a ELSE b

HasPrefix(s, p) == Len(s) >= Len(p) /\ SubSeq(s, 1, Len(p)) = p
TrimPrefix(s, p) == IF HasPrefix(s, p) THEN SubSeq(s, Len(p) + 1, Len(s)) ELSE s
HasSuffix(s, x) == Len(s) >= Len(x) /\ SubSeq(s, Len(s) - Len(x) + 1, Len(s)) = x
TrimSuffix(s, x) == IF HasSuffix(s, x) THEN SubSeq(s, 1, Len(s) - Len(x)) ELSE s

\* strings.LastIndex(s, "-"): 0-based index of the last hyphen, -1 if none
LastIndexHyphen(s) ==
    IF \E i \in 1..Len(s) : s[i] = "-"
    THEN (CHOOSE i \in 1..Len(s) :
            s[i] = "-" /\ \A j \in (i + 1)..Len(s) : s[j] # "-") - 1
    ELSE -1

----------------------------------------------------------------------------
\* What the resource provider can answer.

Orders == <<"o", "r", "d", "e", "r", "s">>
Billing == <<"b", "i", "l", "l", "i", "n", "g">>
TopicA == <<"a">>
QueueQ == <<"q">>
SubB == <<"b">>
SubBDlq == <<"b", "-", "d", "l", "q">>

\* ListTopics / ListQueues
TopLevelListings ==
    { [topics |-> <<>>, queues |-> <<>>],
      [topics |-> <<TopicA>>, queues |-> <<QueueQ>>] }

\* the listings tried under the three-pane coordinator
ExplorerTopLevelListings == { [topics |-> <<Orders>>, queues |-> <<>>] }
ExplorerSubscriptionListings == { <<Billing>> }
ExplorerErrorTexts ==
    {"failed to load topics", "failed to load subscriptions", "failed to peek messages"}

\* ListSubscriptions
SubscriptionListings == { <<>>, <<SubB, SubBDlq>> }

\* PeekMessages(topic, subscription, deadLetter, 100): n messages in
\* sequence-number order
MessageInfo(t, s, d, i) ==
    [SequenceNumber |-> i, topic |-> t, subscription |-> s, deadLetter |-> d]
PeekResult(t, s, d, n) == [i \in 1..n |-> MessageInfo(t, s, d, i)]

\* terminal sizes of a resize event, for the coordinator and for the tree alone
WindowSizes == { [Width |-> 100, Height |-> 15] }
TreeWindowSizes == { [Width |-> 100, Height |-> 3] }

\* one key of each binding, and one key that is bound to nothing
Keys == {"up", "down", "enter", "left", "esc"}

----------------------------------------------------------------------------
\* Commands (tea.Cmd) in flight and the state of the program.

VARIABLES
    heap,         \* the TreeNode objects; a *TreeNode is an index, 0 is nil
    namespace,    \* NamespaceModel
    messages,     \* MessagesModel (with its table)
    detail,       \* MessageDetailModel (with its viewport)
    activePane,   \* ExplorerModel.activePane
    width,        \* ExplorerModel.width
    height,       \* ExplorerModel.height
    prevCursor,   \* ExplorerModel.prevCursor
    pending,      \* bag of commands whose message has not been delivered yet
    started,      \* ExplorerModel.Init has run
    treeEvent,    \* the message RootModel forwarded last and the path it took
    probe,        \* input of an isolated createMessagesSelectedMsg call
    probeResult,  \* its result
    paneEvent     \* the call or message MessagesModel alone received last

vars == <<heap, namespace, messages, detail, activePane, width, height,
          prevCursor, pending, started, treeEvent, probe, probeResult, paneEvent>>

NilRef == 0

Cmd(kind, topicID, topicName, subscriptionName, isDeadLetter) ==
    [kind |-> kind, topicID |-> topicID, topicName |-> topicName,
     subscriptionName |-> subscriptionName, isDeadLetter |-> isDeadLetter]
NoCmd == Cmd("none", <<>>, <<>>, <<>>, FALSE)

\* a selection that createMessagesSelectedMsg refuses (nil)
NoSelection == [ok |-> FALSE, TopicName |-> <<>>, SubscriptionName |-> <<>>,
                IsDeadLetter |-> FALSE]

----------------------------------------------------------------------------
\* NamespaceModel: the tree.

TreeNode(id, name, type, children, hasChildren, depth) ==
    [ID |-> id, Name |-> name, Type |-> type, Children |-> children,
     IsExpanded |-> FALSE, IsLoading |-> FALSE, HasChildren |-> hasChildren,
     Depth |-> depth]

Range(f) == { f[i] : i \in DOMAIN f }

\* the nodes reachable from a set of nodes through Children
RECURSIVE Closure(_, _)
Closure(h, S) ==
    LET T == S \cup UNION { Range(h[r].Children) : r \in S }
    IN IF T = S THEN S ELSE Closure(h, T)

\* A node no pointer leads to any more is garbage: its memory is reclaimed.
\* Pointers are kept in rootNodes, in Children and in the subscription cache.
Reclaimed == TreeNode(<<>>, <<>>, "reclaimed", <<>>, FALSE, 0)
Collect(h, ns) ==
    LET live == Closure(h, Range(ns.rootNodes)
                           \cup UNION { Range(ns.subscriptionCache[id]) :
                                          id \in DOMAIN ns.subscriptionCache })
    IN [r \in DOMAIN h |-> IF r \in live THEN h[r] ELSE Reclaimed]

NewNamespaceModel ==
    [rootNodes |-> <<>>,
     subscriptionCache |-> [id \in {} |-> <<>>],
     errMsg |-> "",
     selectedIdx |-> 0,
     isLoading |-> TRUE,
     viewport |-> [Width |-> 0, Height |-> 0, YOffset |-> 0],
     flatList |-> <<>>]

RECURSIVE traverse(_, _), traverseAll(_, _)
traverse(h, ref) ==
    <<ref>> \o (IF h[ref].IsExpanded /\ Len(h[ref].Children) > 0
                THEN traverseAll(h, h[ref].Children)
                ELSE <<>>)
traverseAll(h, refs) ==
    IF refs = <<>> THEN <<>>
    ELSE traverse(h, Head(refs)) \o traverseAll(h, Tail(refs))

\* a traversal that descends into collapsed nodes too
RECURSIVE traverseAny(_, _)
traverseAny(h, refs) ==
    IF refs = <<>> THEN <<>>
    ELSE <<Head(refs)>> \o traverseAny(h, h[Head(refs)].Children)
         \o traverseAny(h, Tail(refs))
buildFlatList_descendAll(h, ns) == traverseAny(h, ns.rootNodes)

buildFlatList(h, ns) == traverseAll(h, ns.rootNodes)

\* a forgotten rebuild: the flat list is left as it was
rebuildFlatList_stale(h, ns) == ns

rebuildFlatList(h, ns) == [ns EXCEPT !.flatList = buildFlatList(h, ns)]

RECURSIVE search(_, _, _), searchAll(_, _, _)
search(h, ref, id) ==
    IF h[ref].ID = id THEN ref ELSE searchAll(h, h[ref].Children, id)
searchAll(h, refs, id) ==
    IF refs = <<>> THEN NilRef
    ELSE LET r == search(h, Head(refs), id)
         IN IF r # NilRef THEN r ELSE searchAll(h, Tail(refs), id)

findNodeByID(h, ns, id) == searchAll(h, ns.rootNodes, id)
\* a scroll that stops one line short when it follows the selection downwards
ensureSelectedVisible_offByOne(ns) ==
    LET len == Len(ns.flatList)
        s1 == IF ns.selectedIdx >= len THEN len - 1 ELSE ns.selectedIdx
        s2 == IF s1 < 0 THEN 0 ELSE s1
        vp == ns.viewport
        y == IF vp.Width = 0 \/ vp.Height = 0 THEN vp.YOffset
             ELSE IF s2 < vp.YOffset THEN s2
             ELSE IF s2 >= vp.YOffset + vp.Height THEN s2 - vp.Height
             ELSE vp.YOffset
    IN [ns EXCEPT !.selectedIdx = s2, !.viewport.YOffset = y]

ensureSelectedVisible(ns) ==
    LET len == Len(ns.flatList)
        s1 == IF ns.selectedIdx >= len THEN len - 1 ELSE ns.selectedIdx
        s2 == IF s1 < 0 THEN 0 ELSE s1
        vp == ns.viewport
        y == IF vp.Width = 0 \/ vp.Height = 0 THEN vp.YOffset
             ELSE IF s2 < vp.YOffset THEN s2
             ELSE IF s2 >= vp.YOffset + vp.Height THEN s2 - vp.Height + 1
             ELSE vp.YOffset
    IN [ns EXCEPT !.selectedIdx = s2, !.viewport.YOffset = y]
\* children put at the depth of their parent
SetChildDepths_sameDepth(h, ref) ==
    [r \in DOMAIN h |->
        IF \E i \in 1..Len(h[ref].Children) : h[ref].Children[i] = r
        THEN [h[r] EXCEPT !.Depth = h[ref].Depth]
        ELSE h[r]]

\* child.Depth = node.Depth + 1 for every child of node
SetChildDepths(h, ref) ==
    [r \in DOMAIN h |->
        IF \E i \in 1..Len(h[ref].Children) : h[ref].Children[i] = r
        THEN [h[r] EXCEPT !.Depth = h[ref].Depth + 1]
        ELSE h[r]]

\* an expansion that never looks into the subscription cache
handleExpandNode_noCache(h, ns, ref) ==
    IF ref = NilRef \/ ~h[ref].HasChildren \/ h[ref].IsExpanded
    THEN [heap |-> h, cmd |-> NoCmd, path |-> "noop"]
    ELSE IF h[ref].Type = NodeTypeTopic /\ Len(h[ref].Children) = 0
    THEN [heap |-> [h EXCEPT ![ref].IsExpanded = TRUE, ![ref].IsLoading = TRUE],
          cmd |-> Cmd("loadSubscriptions", h[ref].ID, <<>>, <<>>, FALSE),
          path |-> "cache-miss"]
    ELSE [heap |-> [h EXCEPT ![ref].IsExpanded = TRUE], cmd |-> NoCmd,
          path |-> "expanded"]
\* an expand that does not test HasChildren: a leaf is marked expanded
handleExpandNode_expandsLeaves(h, ns, ref) ==
    IF ref = NilRef \/ h[ref].IsExpanded
    THEN [heap |-> h, cmd |-> NoCmd, path |-> "noop"]
    ELSE LET h1 == [h EXCEPT ![ref].IsExpanded = TRUE]
         IN IF h1[ref].Type = NodeTypeTopic /\ Len(h1[ref].Children) = 0
            THEN IF h1[ref].ID \in DOMAIN ns.subscriptionCache
                 THEN LET h2 == [h1 EXCEPT ![ref].Children =
                                     ns.subscriptionCache[h1[ref].ID]]
                      IN [heap |-> SetChildDepths(h2, ref), cmd |-> NoCmd,
                          path |-> "cache-hit"]
                 ELSE [heap |-> [h1 EXCEPT ![ref].IsLoading = TRUE],
                       cmd |-> Cmd("loadSubscriptions", h1[ref].ID, <<>>, <<>>, FALSE),
                       path |-> "cache-miss"]
            ELSE [heap |-> h1, cmd |-> NoCmd, path |-> "expanded"]

\* an expand that attaches the cached children and still marks the node loading
handleExpandNode_hitLoads(h, ns, ref) ==
    IF ref = NilRef \/ ~h[ref].HasChildren \/ h[ref].IsExpanded
    THEN [heap |-> h, cmd |-> NoCmd, path |-> "noop"]
    ELSE LET h1 == [h EXCEPT ![ref].IsExpanded = TRUE]
         IN IF h1[ref].Type = NodeTypeTopic /\ Len(h1[ref].Children) = 0
            THEN IF h1[ref].ID \in DOMAIN ns.subscriptionCache
                 THEN LET h2 == [h1 EXCEPT ![ref].Children =
                                     ns.subscriptionCache[h1[ref].ID],
                                           ![ref].IsLoading = TRUE]
                      IN [heap |-> SetChildDepths(h2, ref), cmd |-> NoCmd,
                          path |-> "cache-hit"]
                 ELSE [heap |-> [h1 EXCEPT ![ref].IsLoading = TRUE],
                       cmd |-> Cmd("loadSubscriptions", h1[ref].ID, <<>>, <<>>, FALSE),
                       path |-> "cache-miss"]
            ELSE [heap |-> h1, cmd |-> NoCmd, path |-> "expanded"]

\* an expand that does not test IsExpanded: an expanded node is expanded again
handleExpandNode_reExpands(h, ns, ref) ==
    IF ref = NilRef \/ ~h[ref].HasChildren
    THEN [heap |-> h, cmd |-> NoCmd, path |-> "noop"]
    ELSE LET h1 == [h EXCEPT ![ref].IsExpanded = TRUE]
         IN IF h1[ref].Type = NodeTypeTopic /\ Len(h1[ref].Children) = 0
            THEN IF h1[ref].ID \in DOMAIN ns.subscriptionCache
                 THEN LET h2 == [h1 EXCEPT ![ref].Children =
                                     ns.subscriptionCache[h1[ref].ID]]
                      IN [heap |-> SetChildDepths(h2, ref), cmd |-> NoCmd,
                          path |-> "cache-hit"]
                 ELSE [heap |-> [h1 EXCEPT ![ref].IsLoading = TRUE],
                       cmd |-> Cmd("loadSubscriptions", h1[ref].ID, <<>>, <<>>, FALSE),
                       path |-> "cache-miss"]
            ELSE [heap |-> h1, cmd |-> NoCmd, path |-> "expanded"]

\* Result of handleExpandNode: the heap, the command and the path taken.
handleExpandNode(h, ns, ref) ==
    IF ref = NilRef \/ ~h[ref].HasChildren \/ h[ref].IsExpanded
    THEN [heap |-> h, cmd |-> NoCmd, path |-> "noop"]
    ELSE LET h1 == [h EXCEPT ![ref].IsExpanded = TRUE]
         IN IF h1[ref].Type = NodeTypeTopic /\ Len(h1[ref].Children) = 0
            THEN IF h1[ref].ID \in DOMAIN ns.subscriptionCache
                 THEN LET h2 == [h1 EXCEPT ![ref].Children =
                                     ns.subscriptionCache[h1[ref].ID]]
                      IN [heap |-> SetChildDepths(h2, ref), cmd |-> NoCmd,
                          path |-> "cache-hit"]
                 ELSE [heap |-> [h1 EXCEPT ![ref].IsLoading = TRUE],
                       cmd |-> Cmd("loadSubscriptions", h1[ref].ID, <<>>, <<>>, FALSE),
                       path |-> "cache-miss"]
            ELSE [heap |-> h1, cmd |-> NoCmd, path |-> "expanded"]

collapseNode(h, ref) ==
    IF ref = NilRef \/ ~h[ref].IsExpanded THEN h
    ELSE [h EXCEPT ![ref].IsExpanded = FALSE]

\* strings.Index(s, "-"): 0-based index of the first hyphen, -1 if none
IndexHyphen(s) ==
    IF \E i \in 1..Len(s) : s[i] = "-"
    THEN (CHOOSE i \in 1..Len(s) : s[i] = "-" /\ \A j \in 1..(i - 1) : s[j] # "-") - 1
    ELSE -1
\* a decoder that does not insist on the "sub-" prefix
createMessagesSelectedMsg_anyPrefix(node) ==
    IF node.Type # NodeTypeMessages THEN NoSelection
    ELSE LET id == TrimPrefix(node.ID, PrefixSub)
             known == HasSuffix(id, SuffixActive) \/ HasSuffix(id, SuffixDlq)
             isDeadLetter == ~HasSuffix(id, SuffixActive)
             topicAndSub == IF HasSuffix(id, SuffixActive)
                            THEN TrimSuffix(id, SuffixActive)
                            ELSE TrimSuffix(id, SuffixDlq)
             lastHyphen == LastIndexHyphen(topicAndSub)
         IN IF ~known THEN NoSelection
            ELSE IF lastHyphen = -1 THEN NoSelection
            ELSE [ok |-> TRUE,
                  TopicName |-> SubSeq(topicAndSub, 1, lastHyphen),
                  SubscriptionName |->
                      SubSeq(topicAndSub, lastHyphen + 2, Len(topicAndSub)),
                  IsDeadLetter |-> isDeadLetter]

\* a decoder that splits on the first hyphen instead of the last
createMessagesSelectedMsg_firstHyphen(node) ==
    LET id == TrimPrefix(node.ID, PrefixSub)
        topicAndSub == IF HasSuffix(id, SuffixActive)
                       THEN TrimSuffix(id, SuffixActive)
                       ELSE TrimSuffix(id, SuffixDlq)
        firstHyphen == IndexHyphen(topicAndSub)
    IN IF \/ node.Type # NodeTypeMessages
          \/ ~HasPrefix(node.ID, PrefixSub)
          \/ ~(HasSuffix(id, SuffixActive) \/ HasSuffix(id, SuffixDlq))
          \/ firstHyphen = -1
       THEN NoSelection
       ELSE [ok |-> TRUE,
             TopicName |-> SubSeq(topicAndSub, 1, firstHyphen),
             SubscriptionName |->
                 SubSeq(topicAndSub, firstHyphen + 2, Len(topicAndSub)),
             IsDeadLetter |-> ~HasSuffix(id, SuffixActive)]

\* createMessagesSelectedMsg on a node (only its ID and Type are read)
createMessagesSelectedMsg(node) ==
    IF node.Type # NodeTypeMessages THEN NoSelection
    ELSE IF ~HasPrefix(node.ID, PrefixSub) THEN NoSelection
    ELSE LET id == TrimPrefix(node.ID, PrefixSub)
             known == HasSuffix(id, SuffixActive) \/ HasSuffix(id, SuffixDlq)
             isDeadLetter == ~HasSuffix(id, SuffixActive)
             topicAndSub == IF HasSuffix(id, SuffixActive)
                            THEN TrimSuffix(id, SuffixActive)
                            ELSE TrimSuffix(id, SuffixDlq)
             lastHyphen == LastIndexHyphen(topicAndSub)
         IN IF ~known THEN NoSelection
            ELSE IF lastHyphen = -1 THEN NoSelection
            ELSE [ok |-> TRUE,
                  TopicName |-> SubSeq(topicAndSub, 1, lastHyphen),
                  SubscriptionName |->
                      SubSeq(topicAndSub, lastHyphen + 2, Len(topicAndSub)),
                  IsDeadLetter |-> isDeadLetter]

\* The nodes loadTopicsAndQueuesCmd builds: topics, then queues.
TopLevelNodes(listing) ==
    [i \in 1..Len(listing.topics) |->
        TreeNode(PrefixTopic \o listing.topics[i], listing.topics[i],
                 NodeTypeTopic, <<>>, TRUE, 0)]
    \o
    [i \in 1..Len(listing.queues) |->
        TreeNode(PrefixQueue \o listing.queues[i], listing.queues[i],
                 NodeTypeQueue, <<>>, FALSE, 0)]

\* subscription nodes whose dead-letter group comes first
SubscriptionNodes_dlqFirst(base, topicName, sub) ==
    LET id == PrefixSub \o topicName \o <<"-">> \o sub
    IN << TreeNode(id, sub, NodeTypeSubscription, <<base + 3, base + 2>>, TRUE, 1),
          TreeNode(id \o SuffixActive, NameActiveMessages, NodeTypeMessages,
                   <<>>, FALSE, 2),
          TreeNode(id \o SuffixDlq, NameDlqMessages, NodeTypeMessages,
                   <<>>, FALSE, 2) >>

\* The nodes loadSubscriptionsCmd builds for one subscription, allocated at
\* base+1 (the subscription), base+2 (active) and base+3 (dead letter).
SubscriptionNodes(base, topicName, sub) ==
    LET id == PrefixSub \o topicName \o <<"-">> \o sub
    IN << TreeNode(id, sub, NodeTypeSubscription, <<base + 2, base + 3>>, TRUE, 1),
          TreeNode(id \o SuffixActive, NameActiveMessages, NodeTypeMessages,
                   <<>>, FALSE, 2),
          TreeNode(id \o SuffixDlq, NameDlqMessages, NodeTypeMessages,
                   <<>>, FALSE, 2) >>

RECURSIVE AllSubscriptionNodes(_, _, _)
AllSubscriptionNodes(base, topicName, subs) ==
    IF subs = <<>> THEN <<>>
    ELSE SubscriptionNodes(base, topicName, Head(subs))
         \o AllSubscriptionNodes(base + 3, topicName, Tail(subs))

SubscriptionRefs(base, subs) == [i \in 1..Len(subs) |-> base + 3 * (i - 1) + 1]

\* NamespaceModel.Update, one operator per case of the type switch.  Each
\* yields the heap, the model, the command returned and the path taken.
Step(h, ns, cmd, path) == [heap |-> h, ns |-> ns, cmd |-> cmd, path |-> path]

NamespaceKey(h, ns, key) ==
    LET sel == ns.selectedIdx
        inRange == sel >= 0 /\ sel < Len(ns.flatList)
        ref == IF inRange THEN ns.flatList[sel + 1] ELSE NilRef
    IN CASE key \in {"up", "k"} ->
              Step(h, ensureSelectedVisible(
                        [ns EXCEPT !.selectedIdx = IF sel > 0 THEN sel - 1 ELSE sel]),
                   NoCmd, "up")
         [] key \in {"down", "j"} ->
              Step(h, ensureSelectedVisible(
                        [ns EXCEPT !.selectedIdx =
                            IF sel < Len(ns.flatList) - 1 THEN sel + 1 ELSE sel]),
                   NoCmd, "down")
         [] key \in {"right", "l", "enter"} ->
              IF ~inRange THEN Step(h, ns, NoCmd, "none")
              ELSE IF h[ref].Type = NodeTypeMessages
              THEN LET sm == createMessagesSelectedMsg(h[ref])
                   IN IF sm.ok
                      THEN Step(h, ns,
                                Cmd("selected", <<>>, sm.TopicName,
                                    sm.SubscriptionName, sm.IsDeadLetter),
                                "select")
                      ELSE Step(h, ns, NoCmd, "select-nil")
              ELSE LET e == handleExpandNode(h, ns, ref)
                   IN Step(e.heap, rebuildFlatList(e.heap, ns), e.cmd, e.path)
         [] key \in {"left", "h"} ->
              IF ~inRange THEN Step(h, ns, NoCmd, "none")
              ELSE LET h1 == collapseNode(h, ref)
                   IN Step(h1, rebuildFlatList(h1, ns), NoCmd,
                           IF h[ref].IsExpanded THEN "collapse"
                           ELSE "collapse-noop")
         [] OTHER -> Step(h, ns, NoCmd, "none")

NamespaceWindowSize(h, ns, w, ht) ==
    Step(h, [ns EXCEPT !.viewport = [Width |-> w, Height |-> Max(ht, 3),
                                      YOffset |-> 0]],
         NoCmd, "resize")

NamespaceTopicsAndQueuesLoaded(h, ns, nodes) ==
    LET ns1 == [ns EXCEPT !.rootNodes = nodes, !.selectedIdx = 0,
                          !.isLoading = FALSE]
        ns2 == rebuildFlatList(h, ns1)
    IN Step(h, [ns2 EXCEPT !.viewport.YOffset = 0], NoCmd, "loaded")
\* a completion that attaches the children and leaves the node loading
NamespaceSubscriptionsLoaded_keepsLoading(h, ns, topicID, subscriptions) ==
    LET ns1 == [ns EXCEPT !.subscriptionCache =
                    (topicID :> subscriptions) @@ ns.subscriptionCache]
        ref == findNodeByID(h, ns1, topicID)
        h1 == IF ref = NilRef THEN h
              ELSE LET h2 == [h EXCEPT ![ref].Children = subscriptions]
                   IN SetChildDepths(h2, ref)
        h4 == Collect(h1, ns1)
    IN Step(h4, rebuildFlatList(h4, ns1), NoCmd,
            IF ref = NilRef THEN "dropped" ELSE "attached")

NamespaceSubscriptionsLoaded(h, ns, topicID, subscriptions) ==
    LET ns1 == [ns EXCEPT !.subscriptionCache =
                    (topicID :> subscriptions) @@ ns.subscriptionCache]
        ref == findNodeByID(h, ns1, topicID)
        h1 == IF ref = NilRef THEN h
              ELSE LET h2 == [h EXCEPT ![ref].Children = subscriptions]
                       h3 == SetChildDepths(h2, ref)
                   IN [h3 EXCEPT ![ref].IsLoading = FALSE]
        h4 == Collect(h1, ns1)
    IN Step(h4, rebuildFlatList(h4, ns1), NoCmd,
            IF ref = NilRef THEN "dropped" ELSE "attached")

\* an error case that forgets the text
NamespaceError_silent(h, ns, text) == Step(h, ns, NoCmd, "error")

NamespaceError(h, ns, text) == Step(h, [ns EXCEPT !.errMsg = text], NoCmd, "error")

NamespaceUpdate(h, ns, msg) ==
    CASE msg.type = "KeyMsg" -> NamespaceKey(h, ns, msg.key)
      [] msg.type = "WindowSizeMsg" -> NamespaceWindowSize(h, ns, msg.Width, msg.Height)
      [] msg.type = "TopicsAndQueuesLoadedMsg" ->
            NamespaceTopicsAndQueuesLoaded(h, ns, msg.Nodes)
      [] msg.type = "SubscriptionsLoadedMsg" ->
            NamespaceSubscriptionsLoaded(h, ns, msg.TopicID, msg.Subscriptions)
      [] msg.type = "ErrorMsg" -> NamespaceError(h, ns, msg.text)
      [] OTHER -> Step(h, ns, NoCmd, "none")

----------------------------------------------------------------------------
\* MessagesModel and its table.

NewMessagesModel ==
    [topicName |-> <<>>, subscriptionName |-> <<>>, isDeadLetter |-> FALSE,
     messages |-> <<>>,
     table |-> [rows |-> <<>>, cursor |-> 0, focus |-> FALSE, height |-> 10],
     isLoading |-> FALSE, errMsg |-> "", width |-> 0, height |-> 0,
     isEmpty |-> TRUE]

\* table.SetRows: the cursor is pulled back onto the last row
tableSetRows(t, rows) ==
    [t EXCEPT !.rows = rows,
              !.cursor = IF t.cursor > Len(rows) - 1 THEN Len(rows) - 1 ELSE t.cursor]

\* table.Update on a key: only a focused table moves its cursor
tableUpdate(t, key) ==
    LET clamp(v) == Min(Max(v, 0), Len(t.rows) - 1)
    IN IF ~t.focus THEN t
       ELSE IF key \in {"up", "k"} THEN [t EXCEPT !.cursor = clamp(t.cursor - 1)]
       ELSE IF key \in {"down", "j"} THEN [t EXCEPT !.cursor = clamp(t.cursor + 1)]
       ELSE t

\* display rows built from the last message to the first
updateTableRows_reversed(m) ==
    [m EXCEPT !.table = tableSetRows(m.table,
                 [i \in 1..Len(m.messages) |->
                     m.messages[Len(m.messages) + 1 - i].SequenceNumber])]

\* one display row per message, in the order of the batch
updateTableRows(m) ==
    [m EXCEPT !.table = tableSetRows(m.table,
                 [i \in 1..Len(m.messages) |-> m.messages[i].SequenceNumber])]

LoadMessages(m, topicName, subscriptionName, isDeadLetter) ==
    updateTableRows([m EXCEPT !.topicName = topicName,
                              !.subscriptionName = subscriptionName,
                              !.isDeadLetter = isDeadLetter,
                              !.isLoading = TRUE,
                              !.isEmpty = FALSE,
                              !.errMsg = "",
                              !.messages = <<>>])

loadMessagesCmd(m) ==
    Cmd("loadMessages", <<>>, m.topicName, m.subscriptionName, m.isDeadLetter)

MessagesSetSize(m, w, ht) ==
    [m EXCEPT !.width = w, !.height = ht, !.table.height = Max(ht - 4, 5)]

SetFocused(m, focused) == [m EXCEPT !.table.focus = focused]

\* an Update that keeps a batch only if it answers the latest LoadMessages
MessagesUpdate_dropsStale(m, msg) ==
    CASE msg.type = "KeyMsg" ->
            IF ~m.isEmpty /\ ~m.isLoading
            THEN [m EXCEPT !.table = tableUpdate(m.table, msg.key)]
            ELSE m
      [] msg.type = "MessagesLoadedMsg" ->
            IF \E i \in 1..Len(msg.Messages) :
                  \/ msg.Messages[i].topic # m.topicName
                  \/ msg.Messages[i].subscription # m.subscriptionName
                  \/ msg.Messages[i].deadLetter # m.isDeadLetter
            THEN m
            ELSE updateTableRows([m EXCEPT !.isLoading = FALSE,
                                           !.messages = msg.Messages])
      [] msg.type = "ErrorMsg" ->
            [m EXCEPT !.isLoading = FALSE, !.errMsg = msg.text]
      [] OTHER -> m

MessagesUpdate(m, msg) ==
    CASE msg.type = "KeyMsg" ->
            IF ~m.isEmpty /\ ~m.isLoading
            THEN [m EXCEPT !.table = tableUpdate(m.table, msg.key)]
            ELSE m
      [] msg.type = "MessagesLoadedMsg" ->
            updateTableRows([m EXCEPT !.isLoading = FALSE,
                                      !.messages = msg.Messages])
      [] msg.type = "ErrorMsg" ->
            [m EXCEPT !.isLoading = FALSE, !.errMsg = msg.text]
      [] OTHER -> m

\* The highlighted message: none (<<>>) if the batch is empty or the cursor
\* is on no row, else the one-element sequence of the message at the cursor.
SelectedMessage(m) ==
    IF Len(m.messages) = 0 THEN <<>>
    ELSE IF m.table.cursor < 0 \/ m.table.cursor >= Len(m.messages) THEN <<>>
    ELSE <<m.messages[m.table.cursor + 1]>>

MessagesViewContent(m) ==
    IF m.isEmpty THEN "Select a message node and press Enter"
    ELSE IF m.isLoading THEN "Loading messages..."
    ELSE IF m.errMsg # "" THEN "Error"
    ELSE IF Len(m.messages) = 0 THEN "No messages found"
    ELSE "table"

----------------------------------------------------------------------------
\* MessageDetailModel and its viewport.

NewMessageDetailModel ==
    [message |-> <<>>, width |-> 0, height |-> 0, ready |-> FALSE,
     viewport |-> [Width |-> 0, Height |-> 0, YOffset |-> 0, lines |-> 0]]

\* Lines written by rebuildContent for a message without custom properties
\* and with a one-line body: 2 header lines, 5 fields, 3 lines before the
\* body, the body.
ContentLines == 11

\* a rebuild that leaves the scroll position where it is
rebuildContent_keepsScroll(d) ==
    IF d.message = <<>> \/ ~d.ready THEN d
    ELSE [d EXCEPT !.viewport.lines = ContentLines]

rebuildContent(d) ==
    IF d.message = <<>> \/ ~d.ready THEN d
    ELSE [d EXCEPT !.viewport.lines = ContentLines, !.viewport.YOffset = 0]

SetMessage(d, msg) == rebuildContent([d EXCEPT !.message = msg])

DetailSetSize(d, w, ht) ==
    rebuildContent(
        [d EXCEPT !.width = w, !.height = ht, !.ready = TRUE,
                  !.viewport = IF d.ready
                               THEN [d.viewport EXCEPT !.Width = w, !.Height = ht]
                               ELSE [Width |-> w, Height |-> ht, YOffset |-> 0,
                                     lines |-> 0]])

DetailUpdate(d, key) ==
    LET vp == d.viewport
        maxY == Max(0, vp.lines - vp.Height)
    IN IF ~d.ready THEN d
       ELSE IF key \in {"down", "j"}
       THEN IF vp.YOffset >= maxY \/ vp.lines = 0 THEN d
            ELSE [d EXCEPT !.viewport.YOffset = Min(vp.YOffset + 1, maxY)]
       ELSE IF key \in {"up", "k"}
       THEN IF vp.YOffset <= 0 THEN d
            ELSE [d EXCEPT !.viewport.YOffset = Max(vp.YOffset - 1, 0)]
       ELSE d

----------------------------------------------------------------------------
\* ExplorerModel: the coordinator.

PaneNamespace == 0
PaneMessages == 1
PaneDetail == 2

\* a remainder that is not held at its floor
messagesWidth_noFloor(w) ==
    w - Max((w * 15) \div 100, 15) - Max((w * 30) \div 100, 30)

\* a detail share that is not held at its floor
detailWidth_noFloor(w) == (w * 30) \div 100

contentHeight(h) == Max(h - 5, 3)
namespaceWidth(w) == Max((w * 15) \div 100, 15)
detailWidth(w) == Max((w * 30) \div 100, 30)
messagesWidth(w) == Max(w - namespaceWidth(w) - detailWidth(w), 30)
\* syncDetailWithCursor: yields the new prevCursor and detail
syncDetailWithCursor(m, prev, d) ==
    LET selected == SelectedMessage(m)
    IN IF selected = <<>> THEN [prevCursor |-> prev, detail |-> d]
       ELSE IF m.table.cursor # prev
       THEN [prevCursor |-> m.table.cursor, detail |-> SetMessage(d, selected)]
       ELSE [prevCursor |-> prev, detail |-> d]
\* a switch to the detail pane that leaves the table focused
switchPane_keepsFocus(pane, m) ==
    CASE pane = PaneNamespace ->
            IF ~m.isEmpty
            THEN [activePane |-> PaneMessages, messages |-> SetFocused(m, TRUE)]
            ELSE [activePane |-> pane, messages |-> m]
      [] pane = PaneMessages ->
            IF ~m.isEmpty /\ SelectedMessage(m) # <<>>
            THEN [activePane |-> PaneDetail, messages |-> m]
            ELSE [activePane |-> PaneNamespace, messages |-> SetFocused(m, FALSE)]
      [] OTHER -> [activePane |-> PaneNamespace, messages |-> m]

\* switchPane: yields the new activePane and messages
switchPane(pane, m) ==
    CASE pane = PaneNamespace ->
            IF ~m.isEmpty
            THEN [activePane |-> PaneMessages, messages |-> SetFocused(m, TRUE)]
            ELSE [activePane |-> pane, messages |-> m]
      [] pane = PaneMessages ->
            IF ~m.isEmpty /\ SelectedMessage(m) # <<>>
            THEN [activePane |-> PaneDetail, messages |-> SetFocused(m, FALSE)]
            ELSE [activePane |-> PaneNamespace, messages |-> SetFocused(m, FALSE)]
      [] OTHER -> [activePane |-> PaneNamespace, messages |-> m]

----------------------------------------------------------------------------
\* The event loop: one action per message ExplorerModel.Update receives.
\* Commands run concurrently, so their messages are delivered in any order.
\* Spinner ticks change only the spinner frame and are left out.

Event(kind, path) == [kind |-> kind, path |-> path]

Issue(bag, cmd) == IF cmd = NoCmd THEN bag ELSE bag (+) SetToBag({cmd})
Deliver(bag, cmd) == bag (-) SetToBag({cmd})
CanIssue(cmd) == cmd = NoCmd \/ BagCardinality(pending) < MaxInFlight
CanIssueExplorer(cmd) ==
    /\ CanIssue(cmd)
    /\ cmd.kind = "loadSubscriptions" =>
          CopiesIn(cmd, pending) < MaxExplorerSubscriptionFetches
InFlight(kind) == { c \in BagToSet(pending) : c.kind = kind }

PaneEvent(kind, cmd, n) == [kind |-> kind, cmd |-> cmd, n |-> n]
NoPaneEvent == PaneEvent("new", NoCmd, 0)

NoProbe == [ID |-> <<>>, Type |-> "none"]
NoProbeResult == [done |-> FALSE, result |-> NoSelection]

Init ==
    /\ heap = <<>>
    /\ namespace = NewNamespaceModel
    /\ messages = NewMessagesModel
    /\ detail = NewMessageDetailModel
    /\ activePane = PaneNamespace
    /\ width = 0
    /\ height = 0
    /\ prevCursor = -1
    /\ pending = EmptyBag
    /\ started = FALSE
    /\ treeEvent = Event("new", "none")
    /\ probe = NoProbe
    /\ probeResult = NoProbeResult
    /\ paneEvent = NoPaneEvent

\* ExplorerModel.Init: the top-level listing is requested once
ExplorerInit ==
    /\ ~started
    /\ started' = TRUE
    /\ pending' = Issue(pending, Cmd("loadTopicsAndQueues", <<>>, <<>>, <<>>, FALSE))
    /\ UNCHANGED <<treeEvent, heap, namespace, messages, detail, activePane, width, height,
                   prevCursor, probe, probeResult, paneEvent>>

\* tea.WindowSizeMsg
WindowSize(sz) ==
    /\ started
    /\ LET r == NamespaceUpdate(heap, namespace,
                    [type |-> "WindowSizeMsg",
                     Width |-> namespaceWidth(sz.Width) - 2,
                     Height |-> contentHeight(sz.Height)])
       IN /\ heap' = r.heap
          /\ namespace' = r.ns
    /\ width' = sz.Width
    /\ height' = sz.Height
    /\ messages' = MessagesSetSize(messages, messagesWidth(sz.Width) - 2,
                                   contentHeight(sz.Height))
    /\ detail' = DetailSetSize(detail, detailWidth(sz.Width) - 2,
                               contentHeight(sz.Height))
    /\ UNCHANGED <<treeEvent, activePane, prevCursor, pending, started, probe, probeResult, paneEvent>>

\* tea.KeyMsg "tab"
KeyTab ==
    /\ started
    /\ LET sw == switchPane(activePane, messages)
       IN /\ activePane' = sw.activePane
          /\ messages' = sw.messages
    /\ UNCHANGED <<treeEvent, heap, namespace, detail, width, height, prevCursor, pending,
                   started, probe, probeResult, paneEvent>>

\* tea.KeyMsg, any other key, while the tree is focused
KeyNamespace(key) ==
    /\ started
    /\ key # "tab"
    /\ activePane = PaneNamespace
    /\ LET r == NamespaceUpdate(heap, namespace, [type |-> "KeyMsg", key |-> key])
       IN /\ CanIssueExplorer(r.cmd)
          /\ heap' = r.heap
          /\ namespace' = r.ns
          /\ pending' = Issue(pending, r.cmd)
    /\ UNCHANGED <<treeEvent, messages, detail, activePane, width, height, prevCursor,
                   started, probe, probeResult, paneEvent>>

\* tea.KeyMsg, any other key, while the messages pane is focused
KeyMessages(key) ==
    /\ started
    /\ key # "tab"
    /\ activePane = PaneMessages
    /\ LET m == MessagesUpdate(messages, [type |-> "KeyMsg", key |-> key])
           sy == syncDetailWithCursor(m, prevCursor, detail)
       IN /\ messages' = m
          /\ prevCursor' = sy.prevCursor
          /\ detail' = sy.detail
    /\ UNCHANGED <<treeEvent, heap, namespace, activePane, width, height, pending, started,
                   probe, probeResult, paneEvent>>
\* a detail pane that takes the key whichever pane is focused
KeyDetail_anyPane(key) ==
    /\ started
    /\ key # "tab"
    /\ detail' = DetailUpdate(detail, key)
    /\ UNCHANGED <<treeEvent, heap, namespace, messages, activePane, width, height,
                   prevCursor, pending, started, probe, probeResult, paneEvent>>

\* tea.KeyMsg, any other key, while the detail pane is focused
KeyDetail(key) ==
    /\ started
    /\ key # "tab"
    /\ activePane = PaneDetail
    /\ detail' = DetailUpdate(detail, key)
    /\ UNCHANGED <<treeEvent, heap, namespace, messages, activePane, width, height,
                   prevCursor, pending, started, probe, probeResult, paneEvent>>

\* SubscriptionMessagesSelectedMsg
SubscriptionMessagesSelected(c) ==
    /\ c \in InFlight("selected")
    /\ LET m == LoadMessages(messages, c.topicName, c.subscriptionName,
                             c.isDeadLetter)
       IN /\ messages' = m
          /\ pending' = Issue(Deliver(pending, c), loadMessagesCmd(m))
    /\ UNCHANGED <<treeEvent, heap, namespace, detail, activePane, width, height,
                   prevCursor, started, probe, probeResult, paneEvent>>

\* a completion that takes the focus whatever the size of the batch
MessagesLoaded_alwaysFocus(c, n) ==
    /\ c \in InFlight("loadMessages")
    /\ LET batch == PeekResult(c.topicName, c.subscriptionName, c.isDeadLetter, n)
           m == MessagesUpdate(messages,
                               [type |-> "MessagesLoadedMsg", Messages |-> batch])
           m1 == SetFocused(m, TRUE)
           sy == syncDetailWithCursor(m1, -1, detail)
       IN /\ activePane' = PaneMessages
          /\ messages' = m1
          /\ prevCursor' = sy.prevCursor
          /\ detail' = sy.detail
    /\ pending' = Deliver(pending, c)
    /\ UNCHANGED <<treeEvent, heap, namespace, width, height, started, probe,
                   probeResult, paneEvent>>

\* MessagesLoadedMsg: the peek of c answered with n messages
MessagesLoaded(c, n) ==
    /\ c \in InFlight("loadMessages")
    /\ LET batch == PeekResult(c.topicName, c.subscriptionName, c.isDeadLetter, n)
           m == MessagesUpdate(messages,
                               [type |-> "MessagesLoadedMsg", Messages |-> batch])
       IN IF Len(batch) > 0
          THEN LET m1 == SetFocused(m, TRUE)
                   sy == syncDetailWithCursor(m1, -1, detail)
               IN /\ activePane' = PaneMessages
                  /\ messages' = m1
                  /\ prevCursor' = sy.prevCursor
                  /\ detail' = sy.detail
          ELSE /\ messages' = m
               /\ UNCHANGED <<activePane, prevCursor, detail>>
    /\ pending' = Deliver(pending, c)
    /\ UNCHANGED <<treeEvent, heap, namespace, width, height, started, probe, probeResult, paneEvent>>

\* The default branch of ExplorerModel.Update: the message goes to the tree
\* and to the messages pane.
Default(c, h, msg) ==
    /\ LET r == NamespaceUpdate(h, namespace, msg)
       IN /\ heap' = r.heap
          /\ namespace' = r.ns
    /\ messages' = MessagesUpdate(messages, msg)
    /\ pending' = Deliver(pending, c)
    /\ UNCHANGED <<treeEvent, detail, activePane, width, height, prevCursor, started,
                   probe, probeResult, paneEvent>>

\* TopicsAndQueuesLoadedMsg: both listings succeeded
TopicsAndQueuesLoaded(c, listing) ==
    /\ c \in InFlight("loadTopicsAndQueues")
    /\ LET nodes == TopLevelNodes(listing)
       IN Default(c, heap \o nodes,
                  [type |-> "TopicsAndQueuesLoadedMsg",
                   Nodes |-> [i \in 1..Len(nodes) |-> Len(heap) + i]])

\* SubscriptionsLoadedMsg: the listing of c's topic succeeded
SubscriptionsLoaded(c, subs) ==
    /\ c \in InFlight("loadSubscriptions")
    /\ LET topicName == TrimPrefix(c.topicID, PrefixTopic)
       IN Default(c, heap \o AllSubscriptionNodes(Len(heap), topicName, subs),
                  [type |-> "SubscriptionsLoadedMsg", TopicID |-> c.topicID,
                   Subscriptions |-> SubscriptionRefs(Len(heap), subs)])

ErrorTexts ==
    [loadTopicsAndQueues |-> {"failed to load topics", "failed to load queues"},
     loadSubscriptions |-> {"failed to load subscriptions"},
     loadMessages |-> {"failed to peek messages"},
     connect |-> {"failed to connect"},
     selected |-> {}]

\* ErrorMsg: the fetch of c failed or timed out
Error(c, text) ==
    /\ c \in BagToSet(pending)
    /\ text \in ErrorTexts[c.kind]
    /\ Default(c, heap, [type |-> "ErrorMsg", text |-> text])

Next ==
    \/ ExplorerInit
    \/ \E sz \in WindowSizes : WindowSize(sz)
    \/ KeyTab
    \/ \E key \in Keys : KeyNamespace(key)
    \/ \E key \in Keys : KeyMessages(key)
    \/ \E key \in Keys : KeyDetail(key)
    \/ \E c \in BagToSet(pending) : SubscriptionMessagesSelected(c)
    \/ \E c \in BagToSet(pending), n \in 0..MaxMessages : MessagesLoaded(c, n)
    \/ \E c \in BagToSet(pending), l \in ExplorerTopLevelListings :
          TopicsAndQueuesLoaded(c, l)
    \/ \E c \in BagToSet(pending), l \in ExplorerSubscriptionListings :
          SubscriptionsLoaded(c, l)
    \/ \E c \in BagToSet(pending) : \E text \in ExplorerErrorTexts : Error(c, text)

\* The three panes under ExplorerModel.
Spec == Init /\ [][Next]_vars

----------------------------------------------------------------------------
\* RootModel in StateNamespace: every message goes to NamespaceModel.Update.

Forward(h, msg, kind) ==
    /\ LET r == NamespaceUpdate(h, namespace, msg)
       IN /\ CanIssue(r.cmd)
          /\ heap' = r.heap
          /\ namespace' = r.ns
          /\ pending' = Issue(pending, r.cmd)
          /\ treeEvent' = Event(kind, r.path)
    /\ UNCHANGED <<messages, detail, activePane, prevCursor, started, probe,
                   probeResult, paneEvent>>

ForwardResult(c, h, msg, kind) ==
    /\ LET r == NamespaceUpdate(h, namespace, msg)
       IN /\ heap' = r.heap
          /\ namespace' = r.ns
          /\ treeEvent' = Event(kind, r.path)
    /\ pending' = Deliver(pending, c)
    /\ UNCHANGED <<messages, detail, activePane, width, height, prevCursor,
                   started, probe, probeResult, paneEvent>>

\* NamespaceConnectedMsg: the tree is created, its listing requested, and it
\* is told the window size if one is known (sz.Width = 0: none yet)
RootNamespaceConnected(sz) ==
    /\ ~started
    /\ started' = TRUE
    /\ width' = sz.Width
    /\ height' = sz.Height
    /\ namespace' =
          IF sz.Width > 0 /\ sz.Height > 0
          THEN NamespaceUpdate(heap, NewNamespaceModel,
                   [type |-> "WindowSizeMsg", Width |-> sz.Width,
                    Height |-> sz.Height]).ns
          ELSE NewNamespaceModel
    /\ pending' = Issue(pending, Cmd("loadTopicsAndQueues", <<>>, <<>>, <<>>, FALSE))
    /\ treeEvent' = Event("init", "none")
    /\ UNCHANGED <<heap, messages, detail, activePane, prevCursor, probe,
                   probeResult, paneEvent>>

RootWindowSize(sz) ==
    /\ started
    /\ width' = sz.Width
    /\ height' = sz.Height
    /\ Forward(heap, [type |-> "WindowSizeMsg", Width |-> sz.Width,
                      Height |-> sz.Height], "resize")

RootKey(key) ==
    /\ started
    /\ UNCHANGED <<width, height>>
    /\ Forward(heap, [type |-> "KeyMsg", key |-> key], "key-tree")

\* a selection event reaches no case of NamespaceModel.Update
RootSubscriptionMessagesSelected(c) ==
    /\ c \in InFlight("selected")
    /\ ForwardResult(c, heap,
                     [type |-> "SubscriptionMessagesSelectedMsg",
                      TopicName |-> c.topicName,
                      SubscriptionName |-> c.subscriptionName,
                      IsDeadLetter |-> c.isDeadLetter], "selected")

RootTopicsAndQueuesLoaded(c, listing) ==
    /\ c \in InFlight("loadTopicsAndQueues")
    /\ LET nodes == TopLevelNodes(listing)
       IN ForwardResult(c, heap \o nodes,
                        [type |-> "TopicsAndQueuesLoadedMsg",
                         Nodes |-> [i \in 1..Len(nodes) |-> Len(heap) + i]],
                        "topics-loaded")

RootSubscriptionsLoaded(c, subs) ==
    /\ c \in InFlight("loadSubscriptions")
    /\ LET topicName == TrimPrefix(c.topicID, PrefixTopic)
       IN ForwardResult(c, heap \o AllSubscriptionNodes(Len(heap), topicName, subs),
                        [type |-> "SubscriptionsLoadedMsg", TopicID |-> c.topicID,
                         Subscriptions |-> SubscriptionRefs(Len(heap), subs)],
                        "subscriptions-loaded")

RootError(c, text) ==
    /\ c \in BagToSet(pending)
    /\ started
    /\ text \in ErrorTexts[c.kind]
    /\ ForwardResult(c, heap, [type |-> "ErrorMsg", text |-> text], "error")

NextTree ==
    \/ \E sz \in TreeWindowSizes \cup {[Width |-> 0, Height |-> 0]} :
          RootNamespaceConnected(sz)
    \/ \E sz \in TreeWindowSizes : RootWindowSize(sz)
    \/ \E key \in Keys : RootKey(key)
    \/ \E c \in BagToSet(pending) : RootSubscriptionMessagesSelected(c)
    \/ \E c \in BagToSet(pending), l \in TopLevelListings :
          RootTopicsAndQueuesLoaded(c, l)
    \/ \E c \in BagToSet(pending), l \in SubscriptionListings :
          RootSubscriptionsLoaded(c, l)
    \/ \E c \in BagToSet(pending) : \E text \in ErrorTexts[c.kind] : RootError(c, text)

\* The tree alone under RootModel.
SpecTree == Init /\ [][NextTree]_vars

----------------------------------------------------------------------------
\* The coordinator under resize events of every size.

ResizeSizes == [Width : 0..MaxWidth, Height : 0..MaxHeight]

NextResize ==
    \/ ExplorerInit
    \/ \E sz \in ResizeSizes : WindowSize(sz)

SpecResize == Init /\ [][NextResize]_vars

----------------------------------------------------------------------------
\* MessageDetailModel alone: resized, given messages and scrolled in any
\* order.

DetailSizes == [Width : {100, MaxWidth}, Height : 0..MaxDetailHeight]
DetailMessages == { MessageInfo(TopicA, SubB, FALSE, i) : i \in 1..MaxMessages }

DetailPaneSetSize(sz) ==
    /\ detail' = DetailSetSize(detail, detailWidth(sz.Width) - 2,
                               contentHeight(sz.Height))
    /\ UNCHANGED <<treeEvent, heap, namespace, messages, activePane, width, height,
                   prevCursor, pending, started, probe, probeResult, paneEvent>>

DetailPaneSetMessage(msg) ==
    /\ detail' = SetMessage(detail, <<msg>>)
    /\ UNCHANGED <<treeEvent, heap, namespace, messages, activePane, width, height,
                   prevCursor, pending, started, probe, probeResult, paneEvent>>

DetailPaneKey(key) ==
    /\ detail' = DetailUpdate(detail, key)
    /\ UNCHANGED <<treeEvent, heap, namespace, messages, activePane, width, height,
                   prevCursor, pending, started, probe, probeResult, paneEvent>>

NextDetail ==
    \/ \E sz \in DetailSizes : DetailPaneSetSize(sz)
    \/ \E msg \in DetailMessages : DetailPaneSetMessage(msg)
    \/ \E key \in Keys : DetailPaneKey(key)

SpecDetail == Init /\ [][NextDetail]_vars

----------------------------------------------------------------------------
\* The tree under RootModel with the namespace list of AuthModel in front of
\* it.  Enter on the namespace list issues a connect command each time it is
\* pressed; every NamespaceConnectedMsg makes RootModel replace its
\* NamespaceModel by a new one, while the commands of the replaced one are
\* still answered and forwarded to the new one.

ConnectCmd == Cmd("connect", <<>>, <<>>, <<>>, FALSE)

\* AuthModel.updateNamespaceSelection, case "enter"
AuthEnter ==
    /\ ~started
    /\ CopiesIn(ConnectCmd, pending) < MaxConnects
    /\ pending' = Issue(pending, ConnectCmd)
    /\ UNCHANGED <<heap, namespace, messages, detail, activePane, width, height,
                   prevCursor, started, treeEvent, probe, probeResult, paneEvent>>

\* RootModel.Update, case NamespaceConnectedMsg.  The nodes of the replaced
\* model are garbage.  sz is the window size RootModel has recorded: the one
\* known at the first connection, the current one later.
RootConnected(c, sz) ==
    /\ c \in InFlight("connect")
    /\ started => sz = [Width |-> width, Height |-> height]
    /\ started' = TRUE
    /\ width' = sz.Width
    /\ height' = sz.Height
    /\ heap' = <<>>
    /\ namespace' =
          IF sz.Width > 0 /\ sz.Height > 0
          THEN NamespaceUpdate(<<>>, NewNamespaceModel,
                   [type |-> "WindowSizeMsg", Width |-> sz.Width,
                    Height |-> sz.Height]).ns
          ELSE NewNamespaceModel
    /\ pending' = Issue(Deliver(pending, c),
                        Cmd("loadTopicsAndQueues", <<>>, <<>>, <<>>, FALSE))
    /\ treeEvent' = Event("init", "none")
    /\ UNCHANGED <<messages, detail, activePane, prevCursor, probe,
                   probeResult, paneEvent>>

\* AuthModel.Update, case ErrorMsg: a connection that fails before any has
\* succeeded is reported on the namespace list
AuthError(c) ==
    /\ c \in InFlight("connect")
    /\ ~started
    /\ pending' = Deliver(pending, c)
    /\ UNCHANGED <<heap, namespace, messages, detail, activePane, width, height,
                   prevCursor, started, treeEvent, probe, probeResult, paneEvent>>

NextReconnect ==
    \/ AuthEnter
    \/ \E c \in BagToSet(pending) : AuthError(c)
    \/ \E c \in BagToSet(pending) :
          \E sz \in TreeWindowSizes \cup {[Width |-> 0, Height |-> 0]} :
             RootConnected(c, sz)
    \/ \E sz \in TreeWindowSizes : RootWindowSize(sz)
    \/ \E key \in Keys : RootKey(key)
    \/ \E c \in BagToSet(pending) : RootSubscriptionMessagesSelected(c)
    \/ \E c \in BagToSet(pending), l \in TopLevelListings :
          RootTopicsAndQueuesLoaded(c, l)
    \/ \E c \in BagToSet(pending), l \in SubscriptionListings :
          RootSubscriptionsLoaded(c, l)
    \/ \E c \in BagToSet(pending) : \E text \in ErrorTexts[c.kind] : RootError(c, text)

SpecReconnect == Init /\ [][NextReconnect]_vars

----------------------------------------------------------------------------
\* createMessagesSelectedMsg alone, on node ids of every shape.

IdOrdersBillingActive == PrefixSub \o Orders \o <<"-">> \o Billing \o SuffixActive
IdOrdersBillingDlq == PrefixSub \o Orders \o <<"-">> \o Billing \o SuffixDlq

\* the longest name between prefix and suffix of a probed id
MaxProbeLen == 3

ProbeBodies == UNION { [1..n -> {"a", "-"}] : n \in 0..MaxProbeLen }
ProbeIDs ==
    { pre \o body \o suf : pre \in {<<>>, PrefixSub}, body \in ProbeBodies,
                           suf \in {<<>>, SuffixActive, SuffixDlq} }
    \cup {IdOrdersBillingActive, IdOrdersBillingDlq}
ProbeNodes ==
    { [ID |-> id, Type |-> type] :
        id \in ProbeIDs, type \in {NodeTypeMessages, NodeTypeSubscription} }

InitDecode ==
    /\ heap = <<>>
    /\ namespace = NewNamespaceModel
    /\ messages = NewMessagesModel
    /\ detail = NewMessageDetailModel
    /\ activePane = PaneNamespace
    /\ width = 0
    /\ height = 0
    /\ prevCursor = -1
    /\ pending = EmptyBag
    /\ started = FALSE
    /\ treeEvent = Event("new", "none")
    /\ probe \in ProbeNodes
    /\ probeResult = NoProbeResult
    /\ paneEvent = NoPaneEvent

Decode ==
    /\ ~probeResult.done
    /\ probeResult' = [done |-> TRUE, result |-> createMessagesSelectedMsg(probe)]
    /\ UNCHANGED <<heap, namespace, messages, detail, activePane, width, height,
                   prevCursor, pending, started, treeEvent, probe,
                   paneEvent>>

NextDecode == Decode

SpecDecode == InitDecode /\ [][NextDecode]_vars

----------------------------------------------------------------------------
\* The key handler of the tree on a node of any id.  loadSubscriptionsCmd
\* builds only ids that decode, so the branch of Update that gets no selection
\* from createMessagesSelectedMsg is tried here on a tree made of one probed
\* node, shown in a window.

ProbeTreeNode(p) ==
    TreeNode(p.ID, <<>>, p.Type, <<>>, p.Type # NodeTypeMessages, 0)

InitSelect ==
    /\ probe \in ProbeNodes
    /\ heap = <<ProbeTreeNode(probe)>>
    /\ namespace = [NewNamespaceModel EXCEPT
                       !.rootNodes = <<1>>, !.flatList = <<1>>,
                       !.isLoading = FALSE,
                       !.viewport = [Width |-> 100, Height |-> 3, YOffset |-> 0]]
    /\ messages = NewMessagesModel
    /\ detail = NewMessageDetailModel
    /\ activePane = PaneNamespace
    /\ width = 100
    /\ height = 3
    /\ prevCursor = -1
    /\ pending = EmptyBag
    /\ started = TRUE
    /\ treeEvent = Event("new", "none")
    /\ probeResult = NoProbeResult
    /\ paneEvent = NoPaneEvent

NextSelect ==
    \/ \E key \in Keys : RootKey(key)
    \/ \E c \in BagToSet(pending) : RootSubscriptionMessagesSelected(c)

SpecSelect == InitSelect /\ [][NextSelect]_vars

----------------------------------------------------------------------------
\* MessagesModel alone: LoadMessages, Update and SetFocused called by any
\* owner, the peeks answering in any order.

PaneTargets ==
    { [topicName |-> Orders, subscriptionName |-> s, isDeadLetter |-> d] :
        s \in {Billing, SubB}, d \in BOOLEAN }

PaneLoadMessages(t) ==
    /\ LET m == LoadMessages(messages, t.topicName, t.subscriptionName,
                             t.isDeadLetter)
       IN /\ CanIssue(loadMessagesCmd(m))
          /\ messages' = m
          /\ pending' = Issue(pending, loadMessagesCmd(m))
          /\ paneEvent' = PaneEvent("load", loadMessagesCmd(m), 0)
    /\ UNCHANGED <<heap, namespace, detail, activePane, width, height,
                   prevCursor, started, treeEvent, probe, probeResult>>

PaneMessagesLoaded(c, n) ==
    /\ c \in InFlight("loadMessages")
    /\ messages' = MessagesUpdate(messages,
                      [type |-> "MessagesLoadedMsg",
                       Messages |-> PeekResult(c.topicName, c.subscriptionName,
                                               c.isDeadLetter, n)])
    /\ pending' = Deliver(pending, c)
    /\ paneEvent' = PaneEvent("loaded", c, n)
    /\ UNCHANGED <<heap, namespace, detail, activePane, width, height,
                   prevCursor, started, treeEvent, probe, probeResult>>

PaneError(c, text) ==
    /\ c \in InFlight("loadMessages")
    /\ text \in ErrorTexts[c.kind]
    /\ messages' = MessagesUpdate(messages, [type |-> "ErrorMsg", text |-> text])
    /\ pending' = Deliver(pending, c)
    /\ paneEvent' = PaneEvent("error", c, 0)
    /\ UNCHANGED <<heap, namespace, detail, activePane, width, height,
                   prevCursor, started, treeEvent, probe, probeResult>>

PaneKey(key) ==
    /\ messages' = MessagesUpdate(messages, [type |-> "KeyMsg", key |-> key])
    /\ paneEvent' = PaneEvent("key", NoCmd, 0)
    /\ UNCHANGED <<heap, namespace, detail, activePane, width, height,
                   prevCursor, pending, started, treeEvent, probe, probeResult>>

PaneSetFocused(focused) ==
    /\ messages' = SetFocused(messages, focused)
    /\ paneEvent' = PaneEvent("focus", NoCmd, 0)
    /\ UNCHANGED <<heap, namespace, detail, activePane, width, height,
                   prevCursor, pending, started, treeEvent, probe, probeResult>>

NextMessages ==
    \/ \E t \in PaneTargets : PaneLoadMessages(t)
    \/ \E c \in BagToSet(pending), n \in 0..MaxMessages : PaneMessagesLoaded(c, n)
    \/ \E c \in BagToSet(pending) : \E text \in ErrorTexts[c.kind] : PaneError(c, text)
    \/ \E key \in Keys : PaneKey(key)
    \/ \E focused \in BOOLEAN : PaneSetFocused(focused)

SpecMessages == Init /\ [][NextMessages]_vars

----------------------------------------------------------------------------
\* Properties of the namespace tree (checked under SpecTree).

\* every node of the tree, visible or hidden
TreeNodes == Closure(heap, Range(namespace.rootNodes))

\* the proper descendants of a node
Descendants(h, r) == Closure(h, Range(h[r].Children))

\* pre-order depth-first search with an explicit stack: the children of an
\* expanded node are visited before the node's following siblings
RECURSIVE Visible(_, _)
Visible(h, stack) ==
    IF stack = <<>> THEN <<>>
    ELSE LET n == Head(stack)
         IN <<n>> \o Visible(h, (IF h[n].IsExpanded THEN h[n].Children ELSE <<>>)
                                \o Tail(stack))

\* position of a node in the flat list, 0 when it is not in it
Pos(f, r) ==
    IF \E i \in 1..Len(f) : f[i] = r
    THEN CHOOSE i \in 1..Len(f) : f[i] = r
    ELSE 0

\* the children of n are in the flat list in their order, the first right
\* after n, with only descendants of a child between it and the next child
ChildrenFollow(f, h, n) ==
    LET cs == h[n].Children
    IN /\ Pos(f, n) > 0
       /\ \A j \in 1..Len(cs) : Pos(f, cs[j]) > 0
       /\ Len(cs) > 0 => Pos(f, cs[1]) = Pos(f, n) + 1
       /\ \A j \in 1..(Len(cs) - 1) :
            /\ Pos(f, cs[j]) < Pos(f, cs[j + 1])
            /\ \A q \in (Pos(f, cs[j]) + 1)..(Pos(f, cs[j + 1]) - 1) :
                 f[q] \in Descendants(h, cs[j])

\* C1: after every processed event the flat list is the pre-order depth-first
\* traversal of the root nodes that descends only into expanded nodes.
C1_FlatListIsPreOrder ==
    namespace.flatList = Visible(heap, namespace.rootNodes)

\* a topic with attached children has just been collapsed and the list
\* shows the roots only
C1_Witness ==
    /\ treeEvent.path = "collapse"
    /\ \E i \in 1..Len(namespace.rootNodes) :
         /\ heap[namespace.rootNodes[i]].Children # <<>>
         /\ ~heap[namespace.rootNodes[i]].IsExpanded
    /\ namespace.flatList = namespace.rootNodes

\* C2 as stated: for every node of the tree that has children, the flat list
\* holds the children in provider order right after the node exactly when the
\* node is expanded.
C2_EveryTreeNode ==
    \A n \in TreeNodes :
        heap[n].Children # <<>> =>
            (ChildrenFollow(namespace.flatList, heap, n) <=> heap[n].IsExpanded)

\* C2 for the nodes that are themselves in the flat list: a listed node with
\* children has them right after it in provider order exactly when it is
\* expanded.
C2_ListedNodes ==
    \A i \in 1..Len(namespace.flatList) :
        LET n == namespace.flatList[i]
        IN heap[n].Children # <<>> =>
             (ChildrenFollow(namespace.flatList, heap, n) <=> heap[n].IsExpanded)

\* an expanded topic whose first subscription is expanded too, followed by a
\* second subscription, and a collapsed listed node that keeps its children
C2_Witness ==
    \E i \in 1..Len(namespace.flatList) :
        LET n == namespace.flatList[i]
            cs == heap[n].Children
        IN /\ heap[n].IsExpanded
           /\ Len(cs) = 2
           /\ heap[cs[1]].IsExpanded
           /\ heap[cs[1]].Children # <<>>
           /\ ~heap[cs[2]].IsExpanded
           /\ heap[cs[2]].Children # <<>>

\* C3: the selection index is never negative and, when the flat list has
\* entries, never beyond the last of them.
C3_SelectionInRange ==
    /\ namespace.selectedIdx >= 0
    /\ namespace.flatList # <<>> =>
         namespace.selectedIdx <= Len(namespace.flatList) - 1

\* C4: an entry of the subscription cache, once written, is neither changed
\* nor removed.
C4_CacheWrittenOnce ==
    [][\A id \in DOMAIN namespace.subscriptionCache :
         /\ id \in DOMAIN namespace'.subscriptionCache
         /\ namespace'.subscriptionCache[id] = namespace.subscriptionCache[id]]_vars

\* C5: once the subscriptions of a topic are in the cache (an empty list
\* included), no step issues another subscription fetch for that topic.
C5_NoFetchOnceCached ==
    [][\A c \in BagToSet(pending') :
         (c.kind = "loadSubscriptions"
            /\ c.topicID \in DOMAIN namespace.subscriptionCache)
         => CopiesIn(c, pending') <= CopiesIn(c, pending)]_vars

\* a topic whose fetch returned no subscription was expanded again and
\* served from the cache
C5_Witness ==
    /\ treeEvent.path = "cache-hit"
    /\ \E id \in DOMAIN namespace.subscriptionCache :
         namespace.subscriptionCache[id] = <<>>
    /\ pending = EmptyBag

\* C6: the expansion that directly follows a collapse issues no subscription
\* fetch.
C6_ReExpandIssuesNoFetch ==
    [][~(treeEvent.path = "collapse" /\ treeEvent'.path = "cache-miss")]_vars

\* C7: the children attached to a topic stay the same nodes from then on.
C7_ChildrenStayAttached ==
    [][\A r \in DOMAIN heap :
         (heap[r].Type = NodeTypeTopic /\ heap[r].Children # <<>>)
         => heap'[r].Children = heap[r].Children]_vars

\* C8: no two nodes of the tree have the same id.
C8_UniqueIDs ==
    \A r1, r2 \in TreeNodes : r1 # r2 => heap[r1].ID # heap[r2].ID

----------------------------------------------------------------------------
\* Properties of the decoder (checked under SpecDecode).

\* C9: a message-group id made of "sub-", a topic name, a hyphen, a
\* subscription name without hyphen and "-active" or "-dlq" decodes to that
\* topic, that subscription and the dead-letter flag of the suffix; so
\* sub-orders-billing-active gives (orders, billing, false) and
\* sub-orders-billing-dlq gives (orders, billing, true).
C9_DecodeSplitsOnLastHyphen ==
    probeResult.done =>
        /\ \A d \in BOOLEAN : \A p \in 1..Len(probe.ID) :
             LET suf == IF d THEN SuffixDlq ELSE SuffixActive
                 q == Len(probe.ID) - Len(suf)
                 t == SubSeq(probe.ID, Len(PrefixSub) + 1, p - 1)
                 s == SubSeq(probe.ID, p + 1, q)
             IN (/\ probe.Type = NodeTypeMessages
                 /\ p > Len(PrefixSub)
                 /\ p <= q
                 /\ probe.ID = PrefixSub \o t \o <<"-">> \o s \o suf
                 /\ "-" \notin Range(s))
                => probeResult.result =
                     [ok |-> TRUE, TopicName |-> t, SubscriptionName |-> s,
                      IsDeadLetter |-> d]
        /\ probe = [ID |-> IdOrdersBillingActive, Type |-> NodeTypeMessages]
             => probeResult.result =
                  [ok |-> TRUE, TopicName |-> Orders,
                   SubscriptionName |-> Billing, IsDeadLetter |-> FALSE]
        /\ probe = [ID |-> IdOrdersBillingDlq, Type |-> NodeTypeMessages]
             => probeResult.result =
                  [ok |-> TRUE, TopicName |-> Orders,
                   SubscriptionName |-> Billing, IsDeadLetter |-> TRUE]

\* an id whose topic part holds a hyphen itself has been decoded
C9_Witness ==
    /\ probeResult.done
    /\ probeResult.result.ok
    /\ "-" \in Range(probeResult.result.TopicName)
    /\ probeResult.result.IsDeadLetter

----------------------------------------------------------------------------
\* Properties of the three panes (checked under Spec).

\* C10: the Messages pane has the focus only while the batch holds a message
\* and the Detail pane only while a message is highlighted.
C10_FocusNeedsContent ==
    /\ activePane \in {PaneNamespace, PaneMessages, PaneDetail}
    /\ activePane = PaneMessages => Len(messages.messages) > 0
    /\ activePane = PaneDetail => SelectedMessage(messages) # <<>>

\* the commands some sequence of at most k keys makes the tree issue
RECURSIVE KeyIssues(_, _, _)
KeyIssues(h, ns, k) ==
    IF k = 0 THEN {}
    ELSE UNION { LET r == NamespaceKey(h, ns, key)
                 IN (IF r.cmd = NoCmd THEN {} ELSE {r.cmd})
                    \cup KeyIssues(r.heap, r.ns, k - 1) : key \in Keys }

\* C13: after a fetch of the tree has failed, some sequence of keys makes the
\* tree issue a fetch of the same kind again.
C13_FailedFetchCanBeRetried ==
    treeEvent.kind = "error" =>
        \E cmd \in KeyIssues(heap, namespace, MaxRetryKeys) :
            namespace.errMsg \in ErrorTexts[cmd.kind]

\* C14: when the top-level listing fails, on the topics or on the queues, the
\* tree records the error, and a tree that records such an error has no root
\* node and an empty flat list: nothing of a partial listing is attached.
C14_FailedLoadLeavesTreeEmpty ==
    [][/\ (treeEvent'.kind = "error"
             /\ \E c \in InFlight("loadTopicsAndQueues") :
                   pending' = Deliver(pending, c))
          => namespace'.errMsg \in ErrorTexts["loadTopicsAndQueues"]
       /\ namespace'.errMsg \in ErrorTexts["loadTopicsAndQueues"]
          => /\ namespace'.rootNodes = <<>>
             /\ namespace'.flatList = <<>>
             /\ heap' = <<>>]_vars

\* listing the queues has failed, and keys have been pressed since
C14_Witness ==
    /\ namespace.errMsg = "failed to load queues"
    /\ namespace.rootNodes = <<>>
    /\ treeEvent.kind = "key-tree"

----------------------------------------------------------------------------
\* Properties of the messages pane alone (checked under SpecMessages).

\* the batch the peek of command c answers with when it finds n messages
BatchOf(c, n) == PeekResult(c.topicName, c.subscriptionName, c.isDeadLetter, n)

\* C11: the completion processed last overwrites the batch, whatever
\* LoadMessages was called last: after a completion the batch is the one that
\* completion delivered, also when a later call for another subscription has
\* been answered before.
C11_LastCompletionOverwrites ==
    paneEvent.kind = "loaded" =>
        messages.messages = BatchOf(paneEvent.cmd, paneEvent.n)

\* both calls are answered and the batch shown is the one of the
\* subscription asked for first, not of the one asked for last
C11_Witness ==
    /\ paneEvent.kind = "loaded"
    /\ paneEvent.n > 0
    /\ pending = EmptyBag
    /\ messages.messages = BatchOf(paneEvent.cmd, paneEvent.n)
    /\ paneEvent.cmd.subscriptionName # messages.subscriptionName

\* C16: a peek that resolves with zero messages leaves the pane in the view
\* state "No messages found", which is not the view state before a load, nor
\* the loading one, nor the error one.
C16_ZeroMessagesView ==
    (paneEvent.kind = "loaded" /\ paneEvent.n = 0) =>
        MessagesViewContent(messages) = "No messages found"

----------------------------------------------------------------------------
\* Properties of the three panes together (checked under Spec).

TreeFetches == {"loadTopicsAndQueues", "loadSubscriptions"}

\* C12: the answer to a tree fetch, a failure included, leaves the loading
\* flag, the error text and the batch of the messages pane as they were, and
\* the answer to a peek, a failure included, leaves the error text, the nodes
\* and the selection of the tree as they were.
C12_FailureIsPaneLocal ==
    [][\A c \in BagToSet(pending) :
         pending' = Deliver(pending, c) =>
            /\ c.kind \in TreeFetches =>
                 /\ messages'.isLoading = messages.isLoading
                 /\ messages'.errMsg = messages.errMsg
                 /\ messages'.messages = messages.messages
            /\ c.kind = "loadMessages" =>
                 /\ namespace'.errMsg = namespace.errMsg
                 /\ namespace'.rootNodes = namespace.rootNodes
                 /\ namespace'.selectedIdx = namespace.selectedIdx
                 /\ heap' = heap]_vars

\* C15: while a subscription fetch of a topic is outstanding the topic node
\* is marked loading, while a peek is outstanding the messages pane is marked
\* loading, and while the top-level listing is outstanding the tree is marked
\* loading.
C15_LoadingReflectsOutstanding ==
    /\ \A c \in InFlight("loadSubscriptions") :
         \A r \in TreeNodes : heap[r].ID = c.topicID => heap[r].IsLoading
    /\ InFlight("loadMessages") # {} => messages.isLoading
    /\ InFlight("loadTopicsAndQueues") # {} => namespace.isLoading

\* the node under the cursor of the tree, NilRef if there is none
Selected(ns) ==
    IF ns.selectedIdx >= 0 /\ ns.selectedIdx < Len(ns.flatList)
    THEN ns.flatList[ns.selectedIdx + 1]
    ELSE NilRef

\* an expanded topic "orders" with its children attached is followed in the
\* flat list by the subscription "billing" at depth 1
BillingFollowsOrders(h, f) ==
    \A i \in 1..Len(f) :
        (h[f[i]].Type = NodeTypeTopic /\ h[f[i]].Name = Orders
           /\ h[f[i]].IsExpanded /\ h[f[i]].Children # <<>>)
        => /\ i + 1 <= Len(f)
           /\ f[i + 1] = h[f[i]].Children[1]
           /\ h[f[i + 1]].Type = NodeTypeSubscription
           /\ h[f[i + 1]].Name = Billing
           /\ h[f[i + 1]].Depth = 1

\* an expanded subscription is followed in the flat list by exactly its two
\* message groups, "Active Messages" then "DLQ Messages", at depth 2
GroupsFollowSubscription(h, f) ==
    \A i \in 1..Len(f) :
        (h[f[i]].Type = NodeTypeSubscription /\ h[f[i]].IsExpanded)
        => /\ i + 2 <= Len(f)
           /\ h[f[i]].Children = <<f[i + 1], f[i + 2]>>
           /\ h[f[i + 1]].Type = NodeTypeMessages
           /\ h[f[i + 1]].Name = NameActiveMessages
           /\ h[f[i + 1]].Depth = 2
           /\ h[f[i + 2]].Type = NodeTypeMessages
           /\ h[f[i + 2]].Name = NameDlqMessages
           /\ h[f[i + 2]].Depth = 2
           /\ i + 3 <= Len(f) => h[f[i + 3]].Depth < 2

\* C18: with the topic "orders" and the provider answering "billing": the
\* expanded topic is followed by "billing" at depth 1; expanding "billing"
\* issues no command and shows "Active Messages" then "DLQ Messages" after
\* it; a selection event is issued only from a message group and names
\* orders, billing and the dead-letter flag of that group (false for the
\* active one); and the peek issued when that event is handled is
\* LoadMessages of the same three values.
C18_OrdersBillingEndToEnd ==
    [][/\ BillingFollowsOrders(heap', namespace'.flatList)
       /\ GroupsFollowSubscription(heap', namespace'.flatList)
       /\ \A r \in DOMAIN heap :
            (heap[r].Type = NodeTypeSubscription /\ ~heap[r].IsExpanded
               /\ heap'[r].IsExpanded)
            => pending' = pending
       /\ \A c \in BagToSet(pending') :
            (c.kind = "selected" /\ CopiesIn(c, pending') > CopiesIn(c, pending))
            => /\ Selected(namespace) # NilRef
               /\ heap[Selected(namespace)].Type = NodeTypeMessages
               /\ c.topicName = Orders
               /\ c.subscriptionName = Billing
               /\ c.isDeadLetter =
                    (heap[Selected(namespace)].Name # NameActiveMessages)
       /\ \A c \in BagToSet(pending') :
            (c.kind = "loadMessages" /\ CopiesIn(c, pending') > CopiesIn(c, pending))
            => /\ \E e \in InFlight("selected") :
                    /\ CopiesIn(e, pending') < CopiesIn(e, pending)
                    /\ e.topicName = c.topicName
                    /\ e.subscriptionName = c.subscriptionName
                    /\ e.isDeadLetter = c.isDeadLetter
               /\ messages'.topicName = c.topicName
               /\ messages'.subscriptionName = c.subscriptionName
               /\ messages'.isDeadLetter = c.isDeadLetter
               /\ messages'.isLoading]_vars

\* the whole scenario has run: the tree shows orders, billing and its two
\* groups, the cursor is on "Active Messages", and the peek of
\* (orders, billing, false) is outstanding
C18_Witness ==
    /\ Len(namespace.flatList) = 4
    /\ heap[namespace.flatList[1]].Name = Orders
    /\ heap[namespace.flatList[2]].Name = Billing
    /\ heap[Selected(namespace)].Name = NameActiveMessages
    /\ Cmd("loadMessages", <<>>, Orders, Billing, FALSE) \in BagToSet(pending)
    /\ messages.isLoading

C20_SelectionLoadsAndFocusFollowsBatch ==
    [][/\ \A e \in InFlight("selected") :
            CopiesIn(e, pending') < CopiesIn(e, pending) =>
               LET c == Cmd("loadMessages", <<>>, e.topicName,
                            e.subscriptionName, e.isDeadLetter)
               IN /\ CopiesIn(c, pending') = CopiesIn(c, pending) + 1
                  /\ messages'.topicName = e.topicName
                  /\ messages'.subscriptionName = e.subscriptionName
                  /\ messages'.isDeadLetter = e.isDeadLetter
                  /\ messages'.isLoading
                  /\ activePane' = activePane
       /\ \A c \in InFlight("loadMessages") :
            pending' = Deliver(pending, c) =>
               /\ (/\ messages'.messages # <<>>
                   /\ \/ messages'.errMsg = ""
                      \/ messages'.messages # messages.messages)
                  => activePane' = PaneMessages
               /\ (\/ messages'.messages = <<>>
                   \/ messages'.errMsg # messages.errMsg)
                  => activePane' = activePane
       /\ (activePane' = PaneMessages /\ activePane # PaneMessages
             /\ pending' # pending)
          => \E c \in InFlight("loadMessages") :
                /\ pending' = Deliver(pending, c)
                /\ messages'.messages # <<>>
                /\ messages'.messages = BatchOf(c, Len(messages'.messages))]_vars

\* a peek has answered with messages while the tree had the focus, and the
\* focus is on the messages pane now, its first message shown in the detail
C20_Witness ==
    /\ activePane = PaneMessages
    /\ messages.table.focus
    /\ Len(messages.messages) > 0
    /\ pending = EmptyBag
    /\ prevCursor = 0
    /\ detail.message # <<>>

----------------------------------------------------------------------------
\* Properties of expansion (SpecTree)

\* the nodes handleExpandNode returns early on: no children to show, or
\* already expanded
ExpandRefused(h, ref) == ~h[ref].HasChildren \/ h[ref].IsExpanded

\* C21: handleExpandNode is a no-op on a node that is a leaf (queue, message
\* group) or is already expanded.  For every node of the tree of every
\* reachable state the call returns the heap it was given and no command, and
\* the Enter key on such a node leaves the heap, the subscription cache, the
\* selection and the flat list as they were and issues no command.
C21_ExpandNoOp ==
    /\ [](\A ref \in TreeNodes :
            ExpandRefused(heap, ref) =>
               LET e == handleExpandNode(heap, namespace, ref)
               IN e.heap = heap /\ e.cmd = NoCmd /\ e.path = "noop")
    /\ [][(treeEvent'.kind = "key-tree" /\ treeEvent'.path = "noop") =>
             /\ Selected(namespace) # NilRef
             /\ ExpandRefused(heap, Selected(namespace))
             /\ heap' = heap
             /\ namespace'.subscriptionCache = namespace.subscriptionCache
             /\ namespace'.selectedIdx = namespace.selectedIdx
             /\ namespace'.flatList = namespace.flatList
             /\ pending' = pending]_vars

\* Enter was pressed on a queue, and on an expanded topic
C21_Witness ==
    /\ treeEvent = Event("key-tree", "noop")
    /\ Selected(namespace) # NilRef
    /\ heap[Selected(namespace)].Type = NodeTypeQueue
    /\ \E ref \in TreeNodes : heap[ref].Type = NodeTypeMessages

C21_WitnessExpanded ==
    /\ treeEvent = Event("key-tree", "noop")
    /\ Selected(namespace) # NilRef
    /\ heap[Selected(namespace)].IsExpanded

\* the step is the Enter key on a node handleExpandNode does not refuse
ExpandStep == treeEvent'.kind = "key-tree"
              /\ treeEvent'.path \in {"cache-hit", "cache-miss", "expanded"}

\* the subscription fetch of a topic id
SubscriptionFetch(id) == Cmd("loadSubscriptions", id, <<>>, <<>>, FALSE)

\* C22: expanding a collapsed topic without children takes one of two paths.
\* With the topic id in the cache the cached children are attached in the same
\* step at depth parent + 1, the node is not loading and nothing is issued.
\* Without it the node is marked loading and exactly one subscription fetch
\* for the topic id is issued.  Expanding a subscription issues nothing.
C22_ExpandTopicHitOrMiss ==
    [][ExpandStep =>
         LET ref == Selected(namespace)
             node == heap[ref]
         IN /\ ref # NilRef
            /\ heap'[ref].IsExpanded
            /\ (node.Type = NodeTypeTopic /\ Len(node.Children) = 0) =>
                 IF node.ID \in DOMAIN namespace.subscriptionCache
                 THEN /\ treeEvent'.path = "cache-hit"
                      /\ heap'[ref].Children = namespace.subscriptionCache[node.ID]
                      /\ \A c \in Range(heap'[ref].Children) :
                           heap'[c].Depth = node.Depth + 1
                      /\ ~heap'[ref].IsLoading
                      /\ pending' = pending
                 ELSE /\ treeEvent'.path = "cache-miss"
                      /\ heap'[ref].IsLoading
                      /\ heap'[ref].Children = <<>>
                      /\ pending' = pending (+) SetToBag({SubscriptionFetch(node.ID)})
            /\ node.Type = NodeTypeSubscription =>
                 /\ treeEvent'.path = "expanded"
                 /\ pending' = pending]_vars

\* a topic was expanded from the cache, and nothing is outstanding
C22_Witness ==
    /\ treeEvent = Event("key-tree", "cache-hit")
    /\ Selected(namespace) # NilRef
    /\ heap[Selected(namespace)].Type = NodeTypeTopic
    /\ heap[Selected(namespace)].IsExpanded
    /\ heap[Selected(namespace)].ID \in DOMAIN namespace.subscriptionCache
    /\ pending = EmptyBag

\* a topic was expanded without a cache entry: it is loading and its fetch is
\* outstanding
C22_WitnessMiss ==
    /\ treeEvent = Event("key-tree", "cache-miss")
    /\ heap[Selected(namespace)].IsLoading
    /\ CopiesIn(SubscriptionFetch(heap[Selected(namespace)].ID), pending) = 1

\* a subscription was expanded
C22_WitnessSubscription ==
    /\ treeEvent = Event("key-tree", "expanded")
    /\ heap[Selected(namespace)].Type = NodeTypeSubscription

----------------------------------------------------------------------------
\* Properties of subscription-fetch completions (SpecReconnect)

\* the step hands the answer of the subscription fetch c to the tree
SubscriptionsLoadedStep(c) ==
    /\ c \in InFlight("loadSubscriptions")
    /\ pending' = Deliver(pending, c)
    /\ treeEvent'.kind = "subscriptions-loaded"

\* C23: the answer of a subscription fetch is attached to the node that has
\* the topic id in the tree as it is when the answer arrives: its children are
\* the nodes of the answer at depth parent + 1 and its loading flag is
\* cleared, whether or not it is the node whose expansion issued the fetch.
\* If no node of the tree has the topic id, the answer changes no node, no
\* root, no selection and no entry of the flat list.
C23_CompletionAttachesByID ==
    [][\A c \in BagToSet(pending) :
         SubscriptionsLoadedStep(c) =>
            LET targets == { r \in TreeNodes : heap[r].ID = c.topicID }
                fresh == (Len(heap) + 1)..Len(heap')
            IN /\ namespace'.rootNodes = namespace.rootNodes
               /\ namespace'.selectedIdx = namespace.selectedIdx
               /\ IF targets = {}
                  THEN /\ treeEvent'.path = "dropped"
                       /\ \A r \in TreeNodes : heap'[r] = heap[r]
                       /\ namespace'.flatList = namespace.flatList
                  ELSE /\ treeEvent'.path = "attached"
                       /\ \E r \in targets :
                            /\ ~heap'[r].IsLoading
                            /\ Range(heap'[r].Children) \subseteq fresh
                            /\ \A k \in Range(heap'[r].Children) :
                                 /\ heap'[k].Type = NodeTypeSubscription
                                 /\ heap'[k].Depth = heap[r].Depth + 1
                            /\ heap'[r] = [heap[r] EXCEPT
                                              !.Children = heap'[r].Children,
                                              !.IsLoading = FALSE]
                            /\ \A o \in TreeNodes \ ({r} \cup Descendants(heap, r)) :
                                 heap'[o] = heap[o]]_vars

\* an answer was attached to a topic that is shown with its subscriptions
C23_Witness ==
    /\ treeEvent = Event("subscriptions-loaded", "attached")
    /\ \E r \in TreeNodes :
         /\ heap[r].Type = NodeTypeTopic
         /\ heap[r].IsExpanded
         /\ Len(heap[r].Children) = 2
         /\ ~heap[r].IsLoading

\* an answer found no node with its topic id: the tree it was requested for
\* has been replaced by a new one whose listing has not arrived
C23_WitnessDropped ==
    /\ treeEvent = Event("subscriptions-loaded", "dropped")
    /\ namespace.rootNodes = <<>>

\* an answer requested for a replaced tree was attached to the topic of the
\* same id in the new tree, which has never been expanded
C23_WitnessNotExpanded ==
    /\ treeEvent = Event("subscriptions-loaded", "attached")
    /\ \E r \in TreeNodes :
         /\ heap[r].Type = NodeTypeTopic
         /\ ~heap[r].IsExpanded
         /\ Len(heap[r].Children) = 2
    /\ namespace.selectedIdx = 0
    /\ Len(namespace.flatList) = 2

----------------------------------------------------------------------------
\* Properties of the loading flags (Spec)

\* the step processes the answer, success or failure, of the fetch c
CompletionStep(c) == pending' = Deliver(pending, c)

\* C24: once the answer of a fetch has been processed, the loading flag the
\* fetch had set is false: the tree's flag after the top-level listing, the
\* topic node's flag after its subscription listing, the messages pane's flag
\* after a peek, whether the fetch succeeded or failed.
C24_LoadingClearedOnCompletion ==
    [][\A c \in BagToSet(pending) :
         CompletionStep(c) =>
            /\ c.kind = "loadTopicsAndQueues" => ~namespace'.isLoading
            /\ c.kind = "loadSubscriptions" =>
                  \A r \in DOMAIN heap' :
                     heap'[r].ID = c.topicID => ~heap'[r].IsLoading
            /\ c.kind = "loadMessages" => ~messages'.isLoading]_vars

\* the number of peeks that have been issued and not answered
OutstandingPeeks ==
    BagCardinality([c \in InFlight("loadMessages") |-> CopiesIn(c, pending)])

\* C25: at most one message peek is outstanding at any time.
C25_AtMostOnePeek == OutstandingPeeks <= 1

----------------------------------------------------------------------------
\* Shape of the tree (SpecTree)

\* C26: a node without HasChildren (queue, message group) has no children and
\* is not expanded; hence every expanded node has HasChildren.
C26_LeavesStayLeaves ==
    \A r \in DOMAIN heap :
       /\ ~heap[r].HasChildren =>
             (heap[r].Children = <<>> /\ ~heap[r].IsExpanded /\ ~heap[r].IsLoading)
       /\ heap[r].IsExpanded => heap[r].HasChildren
       /\ heap[r].HasChildren <=>
             heap[r].Type \in {NodeTypeTopic, NodeTypeSubscription}

\* Enter and Left have been tried on a queue and on a message group of a tree
\* that has an expanded topic and an expanded subscription
C26_Witness ==
    /\ treeEvent.kind = "key-tree"
    /\ \E q, g, t, s \in TreeNodes :
         /\ heap[q].Type = NodeTypeQueue
         /\ heap[g].Type = NodeTypeMessages
         /\ heap[t].Type = NodeTypeTopic /\ heap[t].IsExpanded
         /\ heap[s].Type = NodeTypeSubscription /\ heap[s].IsExpanded
    /\ Selected(namespace) # NilRef
    /\ ~heap[Selected(namespace)].HasChildren
    /\ treeEvent.path \in {"noop", "collapse-noop", "select"}

\* C27: the depth of a node is its distance from the roots: every root node
\* has depth 0 and every child has the depth of its parent plus one, so a
\* subscription has depth 1 and a message group depth 2, whatever loads,
\* expansions, collapses and completions have happened.
C27_DepthIsTreePosition ==
    /\ \A r \in Range(namespace.rootNodes) : heap[r].Depth = 0
    /\ \A p \in TreeNodes : \A k \in Range(heap[p].Children) :
          heap[k].Depth = heap[p].Depth + 1
    /\ \A r \in TreeNodes :
          /\ heap[r].Type = NodeTypeSubscription => heap[r].Depth = 1
          /\ heap[r].Type = NodeTypeMessages => heap[r].Depth = 2

\* a topic has been collapsed after its subscriptions and their message
\* groups were attached
C27_Witness ==
    /\ treeEvent = Event("key-tree", "collapse")
    /\ \E t, s, g \in TreeNodes :
         /\ heap[t].Type = NodeTypeTopic
         /\ s \in Range(heap[t].Children)
         /\ g \in Range(heap[s].Children)
         /\ heap[g].Type = NodeTypeMessages

----------------------------------------------------------------------------
\* Scrolling (SpecTree)

\* the step is the up or the down key handled by the tree
NavigateStep == treeEvent'.kind = "key-tree" /\ treeEvent'.path \in {"up", "down"}

\* the offset scroll-follow gives for selection s, offset o and height h
ScrollFollow(s, o, h) ==
    IF s < o THEN s ELSE IF s >= o + h THEN s - h + 1 ELSE o

\* C28 as stated: every up or down key sets the offset by scroll-follow, and
\* with a viewport of non-zero size the selection is then inside the window.
C28_NavigateScrollFollows ==
    [][NavigateStep =>
         LET s == namespace'.selectedIdx
             vp == namespace.viewport
         IN /\ namespace'.viewport.YOffset = ScrollFollow(s, vp.YOffset, vp.Height)
            /\ (vp.Width # 0 /\ vp.Height # 0) =>
                  /\ namespace'.viewport.YOffset <= s
                  /\ s < namespace'.viewport.YOffset + vp.Height]_vars

\* C28 amended: with a viewport of non-zero width and height every up or down
\* key sets the offset by scroll-follow and the selection is then inside the
\* window; with a viewport of zero width or height the offset is left as it
\* is.  The key changes neither the size of the viewport nor the flat list.
C28_NavigateScrollFollowsSized ==
    [][NavigateStep =>
         LET s == namespace'.selectedIdx
             vp == namespace.viewport
         IN /\ namespace'.viewport.Width = vp.Width
            /\ namespace'.viewport.Height = vp.Height
            /\ namespace'.flatList = namespace.flatList
            /\ IF vp.Width # 0 /\ vp.Height # 0
               THEN /\ namespace'.viewport.YOffset =
                          ScrollFollow(s, vp.YOffset, vp.Height)
                    /\ namespace'.viewport.YOffset <= s
                    /\ s < namespace'.viewport.YOffset + vp.Height
               ELSE namespace'.viewport.YOffset = vp.YOffset]_vars

\* the down key has scrolled the window: the selection is on its last line
C28_Witness ==
    /\ treeEvent = Event("key-tree", "down")
    /\ namespace.viewport.YOffset > 0
    /\ namespace.selectedIdx = namespace.viewport.YOffset + namespace.viewport.Height - 1

\* the up key has scrolled the window back: the selection is on its first line
C28_WitnessUp ==
    /\ treeEvent = Event("key-tree", "up")
    /\ namespace.viewport.YOffset > 0
    /\ namespace.selectedIdx = namespace.viewport.YOffset
    /\ Len(namespace.flatList) > namespace.viewport.YOffset + namespace.viewport.Height

----------------------------------------------------------------------------
\* Selection of a message group whose id does not decode (SpecSelect)

\* "sub-", then a part that holds a hyphen, then "-active" or "-dlq"
Decodable(id) ==
    \E suf \in {SuffixActive, SuffixDlq} :
       /\ Len(id) >= Len(PrefixSub) + Len(suf)
       /\ SubSeq(id, 1, Len(PrefixSub)) = PrefixSub
       /\ SubSeq(id, Len(id) - Len(suf) + 1, Len(id)) = suf
       /\ "-" \in Range(SubSeq(id, Len(PrefixSub) + 1, Len(id) - Len(suf)))

\* C29: createMessagesSelectedMsg yields no selection for a node that is not a
\* message group and for an id that lacks the "sub-" prefix, lacks both
\* suffixes or has no hyphen left between them; and the Enter key on a message
\* group with such an id emits no selection event and changes nothing: not the
\* nodes, not the tree model, not the outstanding commands, not the messages
\* pane, not the detail pane, not the focus.
C29_UndecodableIsSilentNoOp ==
    /\ [](\A type \in {NodeTypeMessages, NodeTypeSubscription, NodeTypeTopic,
                       NodeTypeQueue} :
            (type # NodeTypeMessages \/ ~Decodable(probe.ID)) =>
               createMessagesSelectedMsg([ID |-> probe.ID, Type |-> type])
                  = NoSelection)
    /\ [][(/\ treeEvent'.kind = "key-tree"
           /\ probe.Type = NodeTypeMessages
           /\ ~Decodable(probe.ID))
          => /\ heap' = heap
             /\ namespace' = namespace
             /\ pending' = pending
             /\ messages' = messages
             /\ detail' = detail
             /\ activePane' = activePane
             /\ treeEvent'.path # "select"]_vars

\* Enter was pressed on a message group whose id does not decode
C29_Witness ==
    /\ treeEvent = Event("key-tree", "select-nil")
    /\ Selected(namespace) # NilRef
    /\ heap[Selected(namespace)].Type = NodeTypeMessages
    /\ ~Decodable(heap[Selected(namespace)].ID)
    /\ pending = EmptyBag

\* Enter on a message group whose id decodes emits the selection event
C29_WitnessDecodable ==
    /\ treeEvent = Event("key-tree", "select")
    /\ Decodable(probe.ID)
    /\ pending # EmptyBag

----------------------------------------------------------------------------
\* LoadMessages under the coordinator (Spec)

\* the peek LoadMessages issues for the target of the selection event c
PeekFor(c) == Cmd("loadMessages", <<>>, c.topicName, c.subscriptionName,
                  c.isDeadLetter)

\* the step handles the selection event c: LoadMessages is called
LoadMessagesStep(c) ==
    /\ c \in InFlight("selected")
    /\ pending' = Issue(Deliver(pending, c), PeekFor(c))

\* the immediate effects of LoadMessages: loading set, batch and rows emptied,
\* error cleared, target recorded, one peek issued for the target
LoadMessagesEffects ==
    [][\A c \in BagToSet(pending) :
         LoadMessagesStep(c) =>
            /\ messages'.isLoading
            /\ messages'.messages = <<>>
            /\ messages'.table.rows = <<>>
            /\ messages'.errMsg = ""
            /\ messages'.topicName = c.topicName
            /\ messages'.subscriptionName = c.subscriptionName
            /\ messages'.isDeadLetter = c.isDeadLetter
            /\ CopiesIn(PeekFor(c), pending') = CopiesIn(PeekFor(c), pending) + 1
            /\ MessagesViewContent(messages') = "Loading messages..."]_vars

\* while a peek is outstanding the pane shows no batch: it is loading, and its
\* batch and its rows are empty
NoBatchWhileLoading ==
    [](OutstandingPeeks > 0 =>
          /\ messages.isLoading
          /\ messages.messages = <<>>
          /\ messages.table.rows = <<>>)

\* C30: LoadMessages sets loading, empties the batch and its rows, clears the
\* error, records the target and issues one peek; and no batch is visible
\* while a load is outstanding.
C30_LoadMessagesHidesBatch == LoadMessagesEffects /\ NoBatchWhileLoading

----------------------------------------------------------------------------
\* The detail pane under the coordinator (Spec)

\* the step is a key handled by the focused messages pane
MessagesKeyStep == \E key \in Keys : KeyMessages(key)

\* the step is a peek completion with at least one message
NonEmptyCompletionStep ==
    \E c \in BagToSet(pending) : \E n \in 1..MaxMessages : MessagesLoaded(c, n)

\* the detail pane has been handed the message msg (a pointer: none or one
\* message) and has rebuilt its content
Pushed(msg) ==
    /\ detail' = SetMessage(detail, msg)
    /\ detail'.message = msg
    /\ detail'.ready => (detail'.viewport.YOffset = 0
                         /\ detail'.viewport.lines = ContentLines)

\* what the coordinator does with the detail pane when the position pushed
\* last is last: push exactly when the cursor is elsewhere
PushIffCursorMoved(last) ==
    IF messages'.table.cursor # last
    THEN /\ SelectedMessage(messages') # <<>>
         /\ Pushed(SelectedMessage(messages'))
         /\ prevCursor' = messages'.table.cursor
    ELSE /\ detail' = detail
         /\ prevCursor' = last

\* the same where there is a highlighted message; without one nothing is
\* pushed and the position pushed last is kept
PushIffHighlightMoved(last) ==
    IF SelectedMessage(messages') # <<>> /\ messages'.table.cursor # last
    THEN /\ Pushed(SelectedMessage(messages'))
         /\ prevCursor' = messages'.table.cursor
    ELSE /\ detail' = detail
         /\ prevCursor' = last

\* C31 as stated: after a key of the focused messages pane and after a
\* non-empty completion the highlighted message is pushed into the detail pane
\* exactly when the cursor is not at the position pushed last (no position
\* after a non-empty completion); otherwise the detail pane is left as it is.
\* No state allows a step of either kind that does otherwise, a step that
\* changes nothing included.
C31_PushIffCursorMoved ==
    /\ ~ENABLED (MessagesKeyStep /\ ~PushIffCursorMoved(prevCursor))
    /\ ~ENABLED (NonEmptyCompletionStep /\ ~PushIffCursorMoved(-1))

\* C31 where a message is highlighted
C31_PushIffHighlightMoved ==
    /\ ~ENABLED (MessagesKeyStep /\ ~PushIffHighlightMoved(prevCursor))
    /\ ~ENABLED (NonEmptyCompletionStep /\ ~PushIffHighlightMoved(-1))

----------------------------------------------------------------------------
\* Pane sizes (SpecResize)

\* the widths the three panes have been given, borders included; none before
\* the first resize
Sized == started /\ detail.ready
TreeWidth == namespace.viewport.Width + 2
MessagesWidth == messages.width + 2
DetailWidth == detail.width + 2

\* C32: after a resize to (W, H) the tree is max(W*15/100, 15) wide, the
\* detail pane max(W*30/100, 30), the messages pane max(W - tree - detail, 30)
\* and so never below 30, and the three panes have the content height
\* max(H - 5, 3).
C32_PaneSizes ==
    Sized =>
       LET t == IF (width * 15) \div 100 > 15 THEN (width * 15) \div 100 ELSE 15
           d == IF (width * 30) \div 100 > 30 THEN (width * 30) \div 100 ELSE 30
           m == IF width - t - d > 30 THEN width - t - d ELSE 30
           h == IF height - 5 > 3 THEN height - 5 ELSE 3
       IN /\ TreeWidth = t
          /\ DetailWidth = d
          /\ MessagesWidth = m
          /\ MessagesWidth >= 30
          /\ namespace.viewport.Height = h
          /\ messages.height = h
          /\ detail.height = h
          /\ detail.viewport.Height = h

\* a terminal so narrow that the messages pane is held at its floor, and so
\* low that the content height is held at its floor
C32_Witness ==
    /\ Sized
    /\ width = 60
    /\ height = 4
    /\ MessagesWidth = 30
    /\ messages.height = 3

\* a terminal in which no floor applies
C32_WitnessWide ==
    /\ Sized
    /\ width = MaxWidth
    /\ height = MaxHeight
    /\ TreeWidth = 18 /\ DetailWidth = 36 /\ MessagesWidth = 66
    /\ messages.height = 5

\* C40 as stated: the three widths add up to the width of the terminal.
C40_WidthsAddUp == Sized => TreeWidth + MessagesWidth + DetailWidth = width

\* C40 amended: the three widths add up to the width of the terminal if it
\* is at least 75 wide, and to 75 if it is narrower.
C40_WidthsAddUpFrom75 ==
    Sized => TreeWidth + MessagesWidth + DetailWidth
                = (IF width >= 75 THEN width ELSE 75)

\* terminals of the widths around 75 and around 100 have been tried
C40_Witness ==
    /\ Sized
    /\ width = 75
    /\ TreeWidth = 15 /\ DetailWidth = 30 /\ MessagesWidth = 30

----------------------------------------------------------------------------
\* Key events and the panes that are not focused (Spec)

\* a key other than tab is handled
KeyStep ==
    \E key \in Keys : KeyNamespace(key) \/ KeyMessages(key) \/ KeyDetail(key)

\* C33: a key handled while the messages or the detail pane is focused leaves
\* the tree (its nodes, flat list, selection, offset, expansion and cache)
\* unchanged and issues no fetch; a key handled while the tree is focused
\* leaves the cursor of the message table and the scroll position of the
\* detail pane unchanged.
C33_KeysReachFocusedPaneOnly ==
    [][KeyStep =>
         /\ activePane \in {PaneMessages, PaneDetail} =>
               /\ heap' = heap
               /\ namespace' = namespace
               /\ pending' = pending
         /\ activePane = PaneNamespace =>
               /\ messages'.table.cursor = messages.table.cursor
               /\ detail'.viewport.YOffset = detail.viewport.YOffset]_vars

\* the detail pane has been scrolled by a key while the tree shows an
\* expanded topic and a selection below the first row
C33_Witness ==
    /\ activePane = PaneDetail
    /\ detail.viewport.YOffset = 1
    /\ namespace.selectedIdx > 0
    /\ Len(namespace.flatList) > 2

\* the tree has been navigated by a key while the detail pane is scrolled
C33_WitnessTree ==
    /\ activePane = PaneNamespace
    /\ detail.viewport.YOffset = 1
    /\ messages.table.cursor = 0
    /\ namespace.selectedIdx = 0

----------------------------------------------------------------------------
\* The scroll position of the detail pane (SpecDetail)

\* the last scroll position: the lines that do not fit into the viewport
MaxYOffset(d) == Max(0, d.viewport.lines - d.viewport.Height)

\* C34: the scroll position of the detail pane lies between the top and the
\* last position the content allows; SetMessage on a pane that has a size
\* puts it at the top; a key up at the top and a key down at the bottom change
\* nothing.
C34_ScrollBoundedAndReset ==
    /\ [](/\ detail.viewport.YOffset >= 0
          /\ detail.viewport.YOffset <= MaxYOffset(detail))
    /\ [][/\ (detail.ready /\ \E msg \in DetailMessages : DetailPaneSetMessage(msg))
                => /\ detail'.viewport.YOffset = 0
                   /\ detail'.message # <<>>
          /\ (detail.viewport.YOffset = 0 /\ DetailPaneKey("up"))
                => detail' = detail
          /\ (detail.viewport.YOffset = MaxYOffset(detail) /\ DetailPaneKey("down"))
                => detail' = detail]_vars

\* a message is shown and the pane has been scrolled to a bottom that is not
\* the top
C34_Witness ==
    /\ detail.ready
    /\ detail.message # <<>>
    /\ detail.viewport.YOffset = MaxYOffset(detail)
    /\ detail.viewport.YOffset > 1

\* a message is shown in a pane that is taller than its content
C34_WitnessFits ==
    /\ detail.ready
    /\ detail.message # <<>>
    /\ detail.viewport.Height > detail.viewport.lines
    /\ detail.viewport.lines = ContentLines

----------------------------------------------------------------------------
\* Message-group ids written and read back (SpecTree)

\* the selection event for the message group g of the subscription s of the
\* topic t, from the names the nodes were created for
GroupSelection(h, t, s, g) ==
    [ok |-> TRUE, TopicName |-> h[t].Name, SubscriptionName |-> h[s].Name,
     IsDeadLetter |-> (h[g].Name = NameDlqMessages)]

\* C35: for every message group in the tree, created for a topic, a
\* subscription of that topic and a dead-letter flag, the selection event
\* decoded from the id of the group names that topic, that subscription and
\* that flag; and the Enter key on the group emits exactly that event.
C35_GroupIdRoundTrip ==
    /\ [](\A t \in TreeNodes : \A si \in DOMAIN heap[t].Children :
            LET s == heap[t].Children[si]
            IN \A gi \in DOMAIN heap[s].Children :
                 LET g == heap[s].Children[gi]
                 IN (/\ heap[t].Type = NodeTypeTopic
                     /\ heap[s].Type = NodeTypeSubscription
                     /\ heap[g].Type = NodeTypeMessages)
                    => createMessagesSelectedMsg(heap[g])
                          = GroupSelection(heap, t, s, g))
    /\ [][treeEvent' = Event("key-tree", "select") =>
            \E t \in TreeNodes : \E s \in Range(heap[t].Children) :
               LET g == Selected(namespace)
               IN /\ g \in Range(heap[s].Children)
                  /\ pending' = pending (+) SetToBag({
                        Cmd("selected", <<>>, heap[t].Name, heap[s].Name,
                            heap[g].Name = NameDlqMessages)})]_vars

----------------------------------------------------------------------------
\* The subscription cache and the tree

\* C36: the children of every topic node of the tree whose id has an entry in
\* the subscription cache are the nodes of that entry, in the same order.
C36_CacheCoherence ==
    \A r \in TreeNodes :
       (/\ heap[r].Type = NodeTypeTopic
        /\ heap[r].ID \in DOMAIN namespace.subscriptionCache)
       => heap[r].Children = namespace.subscriptionCache[heap[r].ID]

----------------------------------------------------------------------------
\* The message shown by the detail pane (Spec)

\* the detail pane renders a message: it has one and it has a size
DetailShowsMessage == detail.message # <<>> /\ detail.ready

\* C37: a message shown by the detail pane is a message of the batch the
\* messages pane holds, and it is the one at the cursor of the table.
C37_DetailShowsHighlighted ==
    DetailShowsMessage =>
       /\ detail.message[1] \in Range(messages.messages)
       /\ SelectedMessage(messages) = detail.message

----------------------------------------------------------------------------
\* The selection and the window of the tree (SpecTree)

\* C38: whenever the flat list is non-empty and the viewport has a non-zero
\* width and height, the selected row lies in the window: offset <=
\* selectedIdx < offset + height of the viewport.
C38_SelectionInWindow ==
    (/\ namespace.flatList # <<>>
     /\ namespace.viewport.Width # 0
     /\ namespace.viewport.Height # 0)
    => /\ namespace.viewport.YOffset <= namespace.selectedIdx
       /\ namespace.selectedIdx
             < namespace.viewport.YOffset + namespace.viewport.Height

----------------------------------------------------------------------------
\* The focus of the message table (Spec)

\* C39: the message table is focused exactly while the messages pane is the
\* active pane.
C39_TableFocusIsPaneFocus ==
    messages.table.focus <=> (activePane = PaneMessages)

\* the focus has moved on from a table that shows a batch to the detail pane
C39_Witness ==
    /\ activePane = PaneDetail
    /\ ~messages.table.focus
    /\ Len(messages.messages) > 0

\* a completion has given the focus to the table
C39_WitnessFocused ==
    /\ activePane = PaneMessages
    /\ messages.table.focus
    /\ Len(messages.messages) > 0

====
